---- MODULE Spec2Model ----
(***************************************************************************)
(* The Move unit-test runner (move-unit-test): test_runner.rs and          *)
(* test_reporter.rs.                                                       *)
(*                                                                         *)
(* Rust's Option<T> is a sequence of length 0 (None) or 1 (Some(x)).       *)
(* A BTreeMap is a function whose DOMAIN is the set of its keys, a         *)
(* BTreeSet is a set.  TestRunInfo.elapsed_time (wall clock) takes part in *)
(* no decision of the runner and is left out of TestRunInfo.               *)
(***************************************************************************)
EXTENDS Integers, Sequences, FiniteSets, TLC

\* ------------------------------------------------------------------ bounds

\* abort codes (sub-statuses) range over 0..MaxAbortCode
MaxAbortCode == 1
\* the gas budget of one test (SharedTestingConfig.execution_bound)
ExecutionBound == 1
\* tests in a plan of Spec, over all its modules
MaxTests == 3
\* worker threads of the pool (TestRunner.num_threads ranges over 1..MaxThreads)
MaxThreads == 2
\* how many times filter is called on a runner
MaxFilters == 2

\* ------------------------------------------------------------- data model

None == << >>
Some(x) == << x >>

\* StatusCode values; EXECUTED is the status the primary VM must never return in an Err
ContractStatusCodes == {"ABORTED", "OUT_OF_GAS", "ARITHMETIC_ERROR"}
StatusCodes == ContractStatusCodes \cup {"EXECUTED"}
AbortCodes == 0 .. MaxAbortCode
SubStatuses == {None} \cup {Some(c) : c \in AbortCodes}
Locations == {"Undefined", "Module"}

\* MoveError(major status, sub-status, location)
MoveError(major, sub, loc) == [major |-> major, sub |-> sub, loc |-> loc]
MoveErrors(codes) == {MoveError(s, b, l) : s \in codes, b \in SubStatuses, l \in Locations}

\* VMError: the triple a MoveError is built from, and the execution state (stack
\* trace) it may carry
VMErrors(codes) ==
    [major : codes, sub : SubStatuses, loc : Locations, exec_state : BOOLEAN]

\* VMResult<Vec<Vec<u8>>>
Ok(values) == [tag |-> "Ok", values |-> values, err |-> None]
Err(e) == [tag |-> "Err", values |-> << >>, err |-> Some(e)]
ReturnValues == {<< >>, << 1 >>}

\* Option<ExpectedFailure> of a TestCase
NoExpectation == [kind |-> "None", err |-> None, code |-> None]
Expected == [kind |-> "Expected", err |-> None, code |-> None]
ExpectedWithError(x) == [kind |-> "ExpectedWithError", err |-> Some(x), code |-> None]
ExpectedWithCodeDEPRECATED(c) ==
    [kind |-> "ExpectedWithCodeDEPRECATED", err |-> None, code |-> Some(c)]
ExpectedFailures ==
    {NoExpectation, Expected}
        \cup {ExpectedWithError(x) : x \in MoveErrors(ContractStatusCodes)}
        \cup {ExpectedWithCodeDEPRECATED(c) : c \in AbortCodes}

TestRunInfo(function_ident, instructions_executed) ==
    [function_ident |-> function_ident, instructions_executed |-> instructions_executed]

\* FailureReason and its constructors
Reason(kind, expected, code, actual, move_vm, stackless, details) ==
    [kind |-> kind, expected |-> expected, code |-> code, actual |-> actual,
     move_vm_return_values |-> move_vm, stackless_vm_return_values |-> stackless,
     details |-> details]
no_error == Reason("NoError", None, None, None, None, None, None)
wrong_error(expected, actual) ==
    Reason("WrongError", Some(expected), None, Some(actual), None, None, None)
wrong_abort_deprecated(expected, actual) ==
    Reason("WrongAbortDEPRECATED", None, Some(expected), Some(actual), None, None, None)
unexpected_error(error) ==
    Reason("UnexpectedError", None, None, Some(error), None, None, None)
timeout == Reason("Timeout", None, None, None, None, None, None)
mismatch(move_vm_return_values, stackless_vm_return_values) ==
    Reason("Mismatch", None, None, None,
           Some(move_vm_return_values), Some(stackless_vm_return_values), None)
property(details) == Reason("Property", None, None, None, None, None, Some(details))

TestFailure(failure_reason, test_run_info, vm_error) ==
    [test_run_info |-> test_run_info, vm_error |-> vm_error,
     failure_reason |-> failure_reason]

\* ---------------------------------------------------------- TestStatistics

EmptyMap == [k \in {} |-> {}]

\* TestStatistics::new
new == [passed |-> EmptyMap, failed |-> EmptyMap, output |-> EmptyMap]

\* map.entry(key).or_default().insert(value) on a BTreeMap of BTreeSets
\* (faulty variant, which C1 tells apart: the value replaces the set of the key)
entry_insert_replacing(map, key, value) ==
    [k \in DOMAIN map \cup {key} |-> IF k = key THEN {value} ELSE map[k]]
entry_insert(map, key, value) ==
    [k \in DOMAIN map \cup {key} |->
        IF k = key
        THEN (IF key \in DOMAIN map THEN map[key] ELSE {}) \cup {value}
        ELSE map[k]]

\* TestStatistics::test_failure
test_failure(self, failure, module_id) ==
    [self EXCEPT !.failed = entry_insert(self.failed, module_id, failure)]

\* TestStatistics::test_success
test_success(self, test_info, module_id) ==
    [self EXCEPT !.passed = entry_insert(self.passed, module_id, test_info)]

\* for (k, set) in other: self.entry(k).or_default().extend(set)
\* (faulty variant, which C12 tells apart: without or_default, the sets of the
\* modules self does not know are dropped)
extend_sets_known_modules_only(mine, theirs) ==
    [k \in DOMAIN mine |-> mine[k] \cup (IF k \in DOMAIN theirs THEN theirs[k] ELSE {})]
extend_sets(mine, theirs) ==
    [k \in DOMAIN mine \cup DOMAIN theirs |->
        (IF k \in DOMAIN mine THEN mine[k] ELSE {})
            \cup (IF k \in DOMAIN theirs THEN theirs[k] ELSE {})]

\* BTreeMap::extend on the per-test output maps: an entry of theirs replaces mine
\* (faulty variant, which C13 tells apart: without or_default, the outputs of
\* the modules self does not know are dropped)
extend_maps_known_modules_only(mine, theirs) ==
    [k \in DOMAIN mine |->
        IF k \notin DOMAIN theirs THEN mine[k]
        ELSE [t \in DOMAIN mine[k] \cup DOMAIN theirs[k] |->
                IF t \in DOMAIN theirs[k] THEN theirs[k][t] ELSE mine[k][t]]]
extend_maps(mine, theirs) ==
    [k \in DOMAIN mine \cup DOMAIN theirs |->
        IF k \notin DOMAIN theirs THEN mine[k]
        ELSE IF k \notin DOMAIN mine THEN theirs[k]
        ELSE [t \in DOMAIN mine[k] \cup DOMAIN theirs[k] |->
                IF t \in DOMAIN theirs[k] THEN theirs[k][t] ELSE mine[k][t]]]

\* TestStatistics::combine
combine(self, other) ==
    [passed |-> extend_sets(self.passed, other.passed),
     failed |-> extend_sets(self.failed, other.failed),
     output |-> extend_maps(self.output, other.output)]

\* map.iter().fold(0, |acc, (_, fns)| acc + fns.len())
RECURSIVE fold_len(_)
\* (faulty variant, which C35 tells apart: the entries of the map are counted,
\* not the tests in them)
fold_len_counting_modules(map) == Cardinality(DOMAIN map)
fold_len(map) ==
    IF DOMAIN map = {} THEN 0
    ELSE LET module_id == CHOOSE k \in DOMAIN map : TRUE
         IN  Cardinality(map[module_id])
                + fold_len([k \in DOMAIN map \ {module_id} |-> map[k]])

\* TestResults::summarize on a writer that takes every line: the failure
\* sections it writes (per module of the failed map, the tests of its blocks),
\* the "Test result" line (OK or FAILED, total, passed, failed) and the boolean
\* it returns
\* (faulty variant, which C11 tells apart: the boolean is taken from the other
\* counter)
summarize_returning_none_passed(final_statistics) ==
    LET num_failed_tests == fold_len(final_statistics.failed)
        num_passed_tests == fold_len(final_statistics.passed)
    IN  [failures |->
            [module_id \in DOMAIN final_statistics.failed |->
                {f.test_run_info.function_ident : f \in final_statistics.failed[module_id]}],
         result |-> IF num_failed_tests = 0 THEN "OK" ELSE "FAILED",
         total |-> num_passed_tests + num_failed_tests,
         passed |-> num_passed_tests,
         failed |-> num_failed_tests,
         ok |-> num_passed_tests = 0]
summarize(final_statistics) ==
    LET num_failed_tests == fold_len(final_statistics.failed)
        num_passed_tests == fold_len(final_statistics.passed)
    IN  [failures |->
            [module_id \in DOMAIN final_statistics.failed |->
                {f.test_run_info.function_ident : f \in final_statistics.failed[module_id]}],
         result |-> IF num_failed_tests = 0 THEN "OK" ELSE "FAILED",
         total |-> num_passed_tests + num_failed_tests,
         passed |-> num_passed_tests,
         failed |-> num_failed_tests,
         ok |-> num_failed_tests = 0]

\* ------------------------------------------------------- backend executors

\* Gas::checked_sub
\* (faulty variant, which C28 tells apart: the gas that remains is reported,
\* not the gas that was used)
checked_sub_keeping_the_rest(a, b) == IF b > a THEN None ELSE Some(b)
checked_sub(a, b) == IF b > a THEN None ELSE Some(a - b)

\* VMError::remove_exec_state on an Err result
remove_exec_state(result) ==
    IF result.tag = "Err"
    THEN Err([result.err[1] EXCEPT !.exec_state = FALSE])
    ELSE result

\* SharedTestingConfig::execute_via_move_vm, given what the VM session returned
\* (vm_result) and the gas its meter has left: the return result and the
\* TestRunInfo.  instructions is None where checked_sub(..).unwrap() panics.
execute_via_move_vm(config, function_name, vm_result, remaining_gas) ==
    LET return_result ==
            IF ~config.report_stacktrace_on_abort
            THEN remove_exec_state(vm_result)
            ELSE vm_result
        instructions == checked_sub(config.execution_bound, remaining_gas)
    IN  [return_result |-> return_result,
         test_run_info |->
            IF instructions = None THEN None
            ELSE Some(TestRunInfo(function_name, instructions[1]))]

\* SharedTestingConfig::execute_via_stackless_vm, given what the interpreter
\* returned and what its property checker reported
execute_via_stackless_vm(function_name, interpreted, prop_check_result) ==
    [return_result |-> interpreted,
     test_run_info |-> TestRunInfo(function_name, 0),
     prop_check_result |-> prop_check_result]

\* bridge::adapt_move_vm_result: the primary result in the reference VM's shape.
\* An Err keeps its major status, sub-status and location and nothing else.
adapt_move_vm_result(result) ==
    IF result.tag = "Err"
    THEN Err([major |-> result.err[1].major, sub |-> result.err[1].sub,
              loc |-> result.err[1].loc, exec_state |-> FALSE])
    ELSE result

\* session.finish_with_extensions().0 of execute_via_move_vm: the change set of
\* the session of a test, what the test wrote to the global state
ChangeSet(module_id, function_name) ==
    << [written_by |-> << module_id, function_name >>] >>

\* The storage the next session is opened over.  The session borrows
\* &self.starting_storage_state and the loop drops the change set it gets back
\* (`_cs_result`): nothing is written to the storage.
\* (faulty variant, which C21 tells apart: the change set is applied)
starting_storage_state_applying(starting_storage_state, cs_result) ==
    starting_storage_state \o cs_result
starting_storage_state_after(starting_storage_state, cs_result) ==
    starting_storage_state

\* ------------------------------------------------- one iteration of the loop

\* What one iteration of the test loop does: the status line it writes, the
\* TestRunInfo it records as passed or the TestFailure it records as failed;
\* or it panics, writing and recording nothing.
Panic == [panicked |-> TRUE, line |-> None, success |-> None, failure |-> None]
Pass(test_run_info) ==
    [panicked |-> FALSE, line |-> Some("PASS"), success |-> Some(test_run_info),
     failure |-> None]
\* (faulty variant, which C24 tells apart: every failure is written with
\* output.fail, a timeout too)
Fail_written_as_FAIL(line, failure) ==
    [panicked |-> FALSE, line |-> Some("FAIL"), success |-> None, failure |-> Some(failure)]
Fail(line, failure) ==
    [panicked |-> FALSE, line |-> Some(line), success |-> None, failure |-> Some(failure)]

\* MoveError(err.major_status(), err.sub_status(), err.location().clone())
\* (faulty variant, which C4 tells apart: the sub-status is dropped)
actual_err_without_sub_status(err) == MoveError(err.major, None, err.loc)
actual_err_of(err) == MoveError(err.major, err.sub, err.loc)

\* expected_err == &actual_err
\* (faulty variant, which C6 tells apart: the location is not compared)
error_matches_ignoring_location(expected_err, actual_err) ==
    expected_err.major = actual_err.major /\ expected_err.sub = actual_err.sub
error_matches(expected_err, actual_err) == expected_err = actual_err

\* actual_err.0 == ABORTED && actual_err.1.is_some() && actual_err.1.unwrap() == *code
\* (faulty variant, which C7 tells apart: the major status is not compared)
code_matches_any_status(code, actual_err) ==
    actual_err.sub # None /\ actual_err.sub[1] = code
code_matches(code, actual_err) ==
    /\ actual_err.major = "ABORTED"
    /\ actual_err.sub # None
    /\ actual_err.sub[1] = code

\* test_info.expected_failure.is_some()
\* (faulty variant, which C3 tells apart: only Expected counts as an expectation)
is_some_only_plain_expected(expected_failure) == expected_failure.kind = "Expected"
is_some(expected_failure) == expected_failure.kind # "None"

\* the arm of `match test_info.expected_failure.as_ref()` taken for an Err
\* (two faulty variants: without the OUT_OF_GAS arm, which C2 tells apart, and
\* with the OUT_OF_GAS arm ahead of the expectations, which C5 tells apart)
err_arm_without_timeout(expected_failure, err, actual_err) ==
    IF expected_failure.kind = "Expected" THEN "pass"
    ELSE IF expected_failure.kind = "ExpectedWithError"
            /\ error_matches(expected_failure.err[1], actual_err)
         THEN "pass"
    ELSE IF expected_failure.kind = "ExpectedWithCodeDEPRECATED"
            /\ code_matches(expected_failure.code[1], actual_err)
         THEN "pass"
    ELSE IF expected_failure.kind = "ExpectedWithError" THEN "wrong_error"
    ELSE IF expected_failure.kind = "ExpectedWithCodeDEPRECATED"
         THEN "wrong_abort_deprecated"
    ELSE "unexpected_error"
err_arm_timeout_first(expected_failure, err, actual_err) ==
    IF err.major = "OUT_OF_GAS" THEN "timeout"
    ELSE IF expected_failure.kind = "Expected" THEN "pass"
    ELSE IF expected_failure.kind = "ExpectedWithError"
            /\ error_matches(expected_failure.err[1], actual_err)
         THEN "pass"
    ELSE IF expected_failure.kind = "ExpectedWithCodeDEPRECATED"
            /\ code_matches(expected_failure.code[1], actual_err)
         THEN "pass"
    ELSE IF expected_failure.kind = "ExpectedWithError" THEN "wrong_error"
    ELSE IF expected_failure.kind = "ExpectedWithCodeDEPRECATED"
         THEN "wrong_abort_deprecated"
    ELSE "unexpected_error"
\* (a third faulty variant, which C32 tells apart: after the passing arms, an
\* OUT_OF_GAS arm for any expectation ahead of the incorrect cases)
err_arm_timeout_before_the_incorrect_cases(expected_failure, err, actual_err) ==
    IF expected_failure.kind = "Expected" THEN "pass"
    ELSE IF expected_failure.kind = "ExpectedWithError"
            /\ error_matches(expected_failure.err[1], actual_err)
         THEN "pass"
    ELSE IF expected_failure.kind = "ExpectedWithCodeDEPRECATED"
            /\ code_matches(expected_failure.code[1], actual_err)
         THEN "pass"
    ELSE IF err.major = "OUT_OF_GAS" THEN "timeout"
    ELSE IF expected_failure.kind = "ExpectedWithError" THEN "wrong_error"
    ELSE IF expected_failure.kind = "ExpectedWithCodeDEPRECATED"
         THEN "wrong_abort_deprecated"
    ELSE "unexpected_error"
err_arm(expected_failure, err, actual_err) ==
    IF expected_failure.kind = "Expected" THEN "pass"
    ELSE IF expected_failure.kind = "ExpectedWithError"
            /\ error_matches(expected_failure.err[1], actual_err)
         THEN "pass"
    ELSE IF expected_failure.kind = "ExpectedWithCodeDEPRECATED"
            /\ code_matches(expected_failure.code[1], actual_err)
         THEN "pass"
    ELSE IF expected_failure.kind = "ExpectedWithError" THEN "wrong_error"
    ELSE IF expected_failure.kind = "ExpectedWithCodeDEPRECATED"
         THEN "wrong_abort_deprecated"
    ELSE IF err.major = "OUT_OF_GAS" THEN "timeout"
    ELSE "unexpected_error"

\* the match on exec_result
match_exec_result(expected_failure, exec_result, test_run_info) ==
    IF exec_result.tag = "Err"
    THEN LET err == exec_result.err[1]
             actual_err == actual_err_of(err)
             arm == err_arm(expected_failure, err, actual_err)
         IN  IF err.major = "EXECUTED" THEN Panic
             ELSE IF arm = "pass" THEN Pass(test_run_info)
             ELSE IF arm = "wrong_error"
                  THEN Fail("FAIL",
                            TestFailure(wrong_error(expected_failure.err[1], actual_err),
                                        test_run_info, Some(err)))
             ELSE IF arm = "wrong_abort_deprecated"
                  THEN Fail("FAIL",
                            TestFailure(wrong_abort_deprecated(expected_failure.code[1],
                                                               actual_err),
                                        test_run_info, Some(err)))
             ELSE IF arm = "timeout"
                  THEN Fail("TIMEOUT", TestFailure(timeout, test_run_info, Some(err)))
             ELSE Fail("FAIL",
                       TestFailure(unexpected_error(actual_err), test_run_info, Some(err)))
    ELSE IF is_some(expected_failure)
         THEN Fail("FAIL", TestFailure(no_error, test_run_info, None))
         ELSE Pass(test_run_info)

\* the check against the stackless VM: Some(outcome) where it settles the test
\* (the loop continues with the next test), None where the match is to decide
\* (two faulty variants: without the comparison of the results, which C8 tells
\* apart, and without the look at the property checker, which C9 tells apart)
check_stackless_properties_only(exec_result, test_run_info, stackless) ==
    IF stackless.prop_check_result # None
    THEN Some(Fail("FAIL",
                   TestFailure(property(stackless.prop_check_result[1]),
                               test_run_info, None)))
    ELSE None
check_stackless_results_only(exec_result, test_run_info, stackless) ==
    LET stackless_vm_result == stackless.return_result
        move_vm_result == adapt_move_vm_result(exec_result)
    IN  IF stackless_vm_result # move_vm_result
        THEN Some(Fail("FAIL",
                       TestFailure(mismatch(move_vm_result, stackless_vm_result),
                                   test_run_info, None)))
        ELSE None
\* (a third faulty variant, which C29 tells apart: the failures of the check
\* retain the error of the primary VM)
check_stackless_retaining_the_error(exec_result, test_run_info, stackless) ==
    LET stackless_vm_result == stackless.return_result
        move_vm_result == adapt_move_vm_result(exec_result)
        vm_error == IF exec_result.tag = "Err" THEN Some(exec_result.err[1]) ELSE None
    IN  IF stackless_vm_result # move_vm_result
        THEN Some(Fail("FAIL",
                       TestFailure(mismatch(move_vm_result, stackless_vm_result),
                                   test_run_info, vm_error)))
        ELSE IF stackless.prop_check_result # None
        THEN Some(Fail("FAIL",
                       TestFailure(property(stackless.prop_check_result[1]),
                                   test_run_info, vm_error)))
        ELSE None
\* (a fourth faulty variant, which C34 tells apart: the failures of the check
\* carry the TestRunInfo of the stackless VM)
check_stackless_with_its_own_run_info(exec_result, test_run_info, stackless) ==
    LET stackless_vm_result == stackless.return_result
        move_vm_result == adapt_move_vm_result(exec_result)
    IN  IF stackless_vm_result # move_vm_result
        THEN Some(Fail("FAIL",
                       TestFailure(mismatch(move_vm_result, stackless_vm_result),
                                   stackless.test_run_info, None)))
        ELSE IF stackless.prop_check_result # None
        THEN Some(Fail("FAIL",
                       TestFailure(property(stackless.prop_check_result[1]),
                                   stackless.test_run_info, None)))
        ELSE None
check_stackless(exec_result, test_run_info, stackless) ==
    LET stackless_vm_result == stackless.return_result
        move_vm_result == adapt_move_vm_result(exec_result)
    IN  IF stackless_vm_result # move_vm_result
        THEN Some(Fail("FAIL",
                       TestFailure(mismatch(move_vm_result, stackless_vm_result),
                                   test_run_info, None)))
        ELSE IF stackless.prop_check_result # None
        THEN Some(Fail("FAIL",
                       TestFailure(property(stackless.prop_check_result[1]),
                                   test_run_info, None)))
        ELSE None

\* the body of the loop over test_plan.tests, for one test and what the two
\* backends returned for it
\* (faulty variant, which C10 tells apart: after the check against the stackless
\* VM the match is given the adapted result)
loop_body_matching_adapted(config, function_name, test_info, vm_result, remaining_gas, interpreted, prop) ==
    LET primary == execute_via_move_vm(config, function_name, vm_result, remaining_gas)
        exec_result == primary.return_result
    IN  IF primary.test_run_info = None THEN Panic
        ELSE LET test_run_info == primary.test_run_info[1]
                 checked ==
                    IF config.check_stackless_vm
                    THEN check_stackless(
                            exec_result, test_run_info,
                            execute_via_stackless_vm(function_name, interpreted, prop))
                    ELSE None
             IN  IF checked # None THEN checked[1]
                 ELSE match_exec_result(
                        test_info.expected_failure,
                        IF config.check_stackless_vm
                        THEN adapt_move_vm_result(exec_result)
                        ELSE exec_result,
                        test_run_info)
loop_body(config, function_name, test_info, vm_result, remaining_gas, interpreted, prop) ==
    LET primary == execute_via_move_vm(config, function_name, vm_result, remaining_gas)
        exec_result == primary.return_result
    IN  IF primary.test_run_info = None THEN Panic
        ELSE LET test_run_info == primary.test_run_info[1]
                 checked ==
                    IF config.check_stackless_vm
                    THEN check_stackless(
                            exec_result, test_run_info,
                            execute_via_stackless_vm(function_name, interpreted, prop))
                    ELSE None
             IN  IF checked # None THEN checked[1]
                 ELSE match_exec_result(test_info.expected_failure, exec_result,
                                        test_run_info)

\* ------------------------------------------------------------------ state

VARIABLES
    testing_config,   \* SharedTestingConfig: check_stackless_vm,
                      \* report_stacktrace_on_abort, execution_bound
    num_threads,      \* TestRunner.num_threads
    tests,            \* TestPlan.module_tests: module id -> its tests in order,
                      \* each [function_name, test_info]
    driver,           \* per module, the call of exec_module_tests: where it is
                      \* (pc), the index of its next test, its local stats
    writer,           \* the lines written to the shared writer, in order
    executions,       \* per module, what the backends returned for each test
                      \* executed so far, and the exec_result the driver got
                      \* from execute_via_move_vm (history)
    reduced,          \* the reduce of run(): the folded statistics of the
                      \* segments of modules reduced so far
    run,              \* run(): "none" while no TestRunner exists, "running",
                      \* or its result "Ok" with the final statistics, or
                      \* "panicked"
    module_info,      \* TestPlan.module_info: module id -> the modules its
                      \* compiled module depends on
    storage,          \* the InMemoryStorage of setup_test_storage: the module
                      \* ids published so far, in order
    main,             \* the command line tool: where it is (pc), the order
                      \* setup_test_storage publishes in, what summarize wrote
                      \* and returned, the exit code of the process, what
                      \* report_statistics wrote
    filtered,         \* the calls of TestRunner::filter so far, in order: the
                      \* slice and the plan the runner held before (history)
    mutex             \* the Mutex around the writer: None, or Some(m) while the
                      \* driver of module m holds its guard

vars ==
    << testing_config, num_threads, tests, driver, writer, executions, reduced, run,
       module_info, storage, main, filtered, mutex >>

\* what the test run leaves alone: the plan's modules, the storage, the tool
boot == << module_info, storage, main >>

ModuleIds == {1, 2}
FunctionNames == << "t1", "t2", "t3", "t4" >>

TestCase(expected_failure) == [expected_failure |-> expected_failure]
Test(i, expected_failure) ==
    [function_name |-> FunctionNames[i], test_info |-> TestCase(expected_failure)]

\* what the primary VM may return for a test: a result and the gas left
VMRuns(results) == [vm_result : results, remaining_gas : 0 .. ExecutionBound]
VMResults(codes) == {Ok(v) : v \in ReturnValues} \cup {Err(e) : e \in VMErrors(codes)}
\* what the stackless interpreter may return: results without execution state
StacklessResults(codes) ==
    {Ok(v) : v \in ReturnValues}
        \cup {Err(e) : e \in {x \in VMErrors(codes) : ~x.exec_state}}
PropCheckResults == {None, Some("property violated")}

Configs ==
    [check_stackless_vm : BOOLEAN, report_stacktrace_on_abort : BOOLEAN,
     execution_bound : {ExecutionBound}]

IdleDriver == [pc |-> "queued", next |-> 1, stats |-> new]

\* the tool once TestRunner::new has returned Ok and run() is called: the
\* modules were published in this order, nothing is summarized yet
Constructed(order) ==
    [pc |-> "run", order |-> order, summary |-> None, exit_code |-> None,
     report |-> None]

\* ---------------------------------------------------------------- actions

\* the drivers that are on a worker of the pool: entered and not yet returned
OnAWorker == {m \in DOMAIN driver : driver[m].pc \notin {"queued", "returned", "panicked"}}

\* A worker of the pool takes module m (par_iter().map(..exec_module_tests..)):
\* exec_module_tests_move_vm_and_stackless_vm is entered, stats = new().  With
\* one thread the modules are taken in module-id order.
\* (faulty variant, which C26 tells apart: a driver is started for every module
\* at once, whatever the size of the pool)
StartModule_beyond_the_pool(m) ==
    /\ run = "running"
    /\ driver[m].pc = "queued"
    /\ driver' = [driver EXCEPT ![m].pc = "running"]
    /\ UNCHANGED << testing_config, num_threads, tests, writer, executions, reduced, run, boot, filtered, mutex >>
\* (faulty variant, which C27 tells apart: the one worker takes the modules in
\* any order)
StartModule_in_any_order(m) ==
    /\ run = "running"
    /\ driver[m].pc = "queued"
    /\ Cardinality(OnAWorker) < num_threads
    /\ driver' = [driver EXCEPT ![m].pc = "running"]
    /\ UNCHANGED << testing_config, num_threads, tests, writer, executions, reduced, run, boot, filtered, mutex >>
StartModule(m) ==
    /\ run = "running"
    /\ driver[m].pc = "queued"
    /\ Cardinality(OnAWorker) < num_threads
    /\ num_threads = 1 => \A k \in DOMAIN driver : k < m => driver[k].pc # "queued"
    /\ driver' = [driver EXCEPT ![m].pc = "running"]
    /\ UNCHANGED << testing_config, num_threads, tests, writer, executions, reduced, run, boot, filtered, mutex >>

\* One iteration of `for (function_name, test_info) in &test_plan.tests`: both
\* backends run, the status line is written under the writer's lock, the test is
\* recorded in the driver's stats.  A panic unwinds the driver and, through the
\* pool, run().
LoopIteration(m, vm_runs, stackless_results, prop_results) ==
    /\ run = "running"
    /\ driver[m].pc = "running"
    /\ driver[m].next <= Len(tests[m])
    /\ \E vm \in vm_runs, interpreted \in stackless_results, prop \in prop_results :
        LET test == tests[m][driver[m].next]
            ran_stackless == testing_config.check_stackless_vm
            outcome ==
                loop_body(testing_config, test.function_name, test.test_info,
                          vm.vm_result, vm.remaining_gas, interpreted, prop)
            execution ==
                [function_name |-> test.function_name,
                 starting_storage_state |-> storage,
                 vm_result |-> vm.vm_result,
                 remaining_gas |-> vm.remaining_gas,
                 exec_result |->
                    execute_via_move_vm(testing_config, test.function_name,
                                        vm.vm_result, vm.remaining_gas).return_result,
                 stackless_vm_result |-> IF ran_stackless THEN Some(interpreted) ELSE None,
                 prop_check_result |-> IF ran_stackless THEN prop ELSE None]
        IN  /\ ~ran_stackless => interpreted = Ok(<< >>) /\ prop = None
            /\ executions' = [executions EXCEPT ![m] = Append(@, execution)]
            /\ IF outcome.panicked
               THEN /\ driver' = [driver EXCEPT ![m].pc = "panicked"]
                    /\ run' = "panicked"
                    /\ UNCHANGED writer
               ELSE /\ writer' =
                        Append(writer, [kind |-> outcome.line[1], module_id |-> m,
                                        function_name |-> test.function_name])
                    /\ driver' =
                        [driver EXCEPT
                            ![m].next = @ + 1,
                            ![m].stats =
                                IF outcome.success # None
                                THEN test_success(@, outcome.success[1], m)
                                ELSE test_failure(@, outcome.failure[1], m)]
                    /\ UNCHANGED run
            /\ storage' =
                starting_storage_state_after(storage, ChangeSet(m, test.function_name))
    /\ UNCHANGED << testing_config, num_threads, tests, reduced, module_info, main, filtered, mutex >>

\* exec_module_tests_move_vm_and_stackless_vm is entered with check_stackless_vm
\* and the model of the source files cannot be built, or has errors: panic!(..)
\* on the worker's thread, which unwinds the driver and, through the pool, run()
\* (faulty variant, which C30 tells apart: the model is built, and may fail to
\* build, with and without check_stackless_vm)
ModelBuildPanics_in_any_mode(m) ==
    /\ run = "running"
    /\ driver[m].pc = "queued"
    /\ Cardinality(OnAWorker) < num_threads
    /\ num_threads = 1 => \A k \in DOMAIN driver : k < m => driver[k].pc # "queued"
    /\ driver' = [driver EXCEPT ![m].pc = "panicked"]
    /\ run' = "panicked"
    /\ UNCHANGED << testing_config, num_threads, tests, writer, executions, reduced, boot, filtered, mutex >>
ModelBuildPanics(m) ==
    /\ run = "running"
    /\ driver[m].pc = "queued"
    /\ Cardinality(OnAWorker) < num_threads
    /\ num_threads = 1 => \A k \in DOMAIN driver : k < m => driver[k].pc # "queued"
    /\ testing_config.check_stackless_vm
    /\ driver' = [driver EXCEPT ![m].pc = "panicked"]
    /\ run' = "panicked"
    /\ UNCHANGED << testing_config, num_threads, tests, writer, executions, reduced, boot, filtered, mutex >>

\* An iteration of the loop whose status line the writer does not take:
\* writeln!(self.writer.lock().unwrap(), ..).unwrap() panics in output.pass,
\* output.fail or output.timeout, before the test is recorded
WritePanics(m, vm_runs, stackless_results, prop_results) ==
    /\ run = "running"
    /\ driver[m].pc = "running"
    /\ driver[m].next <= Len(tests[m])
    /\ \E vm \in vm_runs, interpreted \in stackless_results, prop \in prop_results :
        LET test == tests[m][driver[m].next]
            ran_stackless == testing_config.check_stackless_vm
            execution ==
                [function_name |-> test.function_name,
                 starting_storage_state |-> storage,
                 vm_result |-> vm.vm_result,
                 remaining_gas |-> vm.remaining_gas,
                 exec_result |->
                    execute_via_move_vm(testing_config, test.function_name,
                                        vm.vm_result, vm.remaining_gas).return_result,
                 stackless_vm_result |-> IF ran_stackless THEN Some(interpreted) ELSE None,
                 prop_check_result |-> IF ran_stackless THEN prop ELSE None]
        IN  /\ ~ran_stackless => interpreted = Ok(<< >>) /\ prop = None
            /\ executions' = [executions EXCEPT ![m] = Append(@, execution)]
            /\ storage' =
                starting_storage_state_after(storage, ChangeSet(m, test.function_name))
    /\ driver' = [driver EXCEPT ![m].pc = "panicked"]
    /\ run' = "panicked"
    /\ UNCHANGED << testing_config, num_threads, tests, writer, reduced, module_info, main, filtered, mutex >>

\* The same iteration in the steps other workers can see: the test is
\* executed and matched, up to the call of output.pass, output.fail or
\* output.timeout; the writer's lock is taken; write_fmt writes the line in
\* pieces; the guard is dropped at the end of the statement and the test is
\* recorded.

\* the pieces write_fmt hands to the writer for one line: "[ KIND ] " and
\* "module::function\n"
LineChunks == << "status", "name" >>

\* what the iteration of the test the driver of m is at came to
OutcomeAt(m) ==
    LET test == tests[m][driver[m].next]
        ex == executions[m][driver[m].next]
    IN  loop_body(testing_config, test.function_name, test.test_info,
                  ex.vm_result, ex.remaining_gas,
                  IF ex.stackless_vm_result = None THEN Ok(<< >>)
                  ELSE ex.stackless_vm_result[1],
                  ex.prop_check_result)

\* the backends run for the next test of m and its outcome is decided
Execute(m, vm_runs, stackless_results, prop_results) ==
    /\ run = "running"
    /\ driver[m].pc = "running"
    /\ driver[m].next <= Len(tests[m])
    /\ \E vm \in vm_runs, interpreted \in stackless_results, prop \in prop_results :
        LET test == tests[m][driver[m].next]
            ran_stackless == testing_config.check_stackless_vm
            execution ==
                [function_name |-> test.function_name,
                 starting_storage_state |-> storage,
                 vm_result |-> vm.vm_result,
                 remaining_gas |-> vm.remaining_gas,
                 exec_result |->
                    execute_via_move_vm(testing_config, test.function_name,
                                        vm.vm_result, vm.remaining_gas).return_result,
                 stackless_vm_result |-> IF ran_stackless THEN Some(interpreted) ELSE None,
                 prop_check_result |-> IF ran_stackless THEN prop ELSE None]
        IN  /\ ~ran_stackless => interpreted = Ok(<< >>) /\ prop = None
            /\ ~loop_body(testing_config, test.function_name, test.test_info,
                          vm.vm_result, vm.remaining_gas, interpreted, prop).panicked
            /\ executions' = [executions EXCEPT ![m] = Append(@, execution)]
            /\ storage' =
                starting_storage_state_after(storage, ChangeSet(m, test.function_name))
    /\ driver' = [driver EXCEPT ![m].pc = "locking"]
    /\ UNCHANGED << testing_config, num_threads, tests, writer, reduced, run, module_info, main, filtered, mutex >>

\* self.writer.lock().unwrap(): the driver waits until no other holds the guard
\* (faulty variant, which C25 tells apart: the writer is shared without a lock)
Lock_without_waiting(m) ==
    /\ driver[m].pc = "locking"
    /\ mutex' = Some(m)
    /\ driver' = [driver EXCEPT ![m].pc = "writing"]
    /\ UNCHANGED << testing_config, num_threads, tests, writer, executions, reduced, run, boot, filtered >>
Lock(m) ==
    /\ driver[m].pc = "locking"
    /\ mutex = None
    /\ mutex' = Some(m)
    /\ driver' = [driver EXCEPT ![m].pc = "writing"]
    /\ UNCHANGED << testing_config, num_threads, tests, writer, executions, reduced, run, boot, filtered >>

\* writeln!(guard, ..): write_fmt writes the next piece of the line
WriteChunk(m) ==
    /\ driver[m].pc = "writing"
    /\ LET test == tests[m][driver[m].next]
           written ==
                Cardinality({k \in DOMAIN writer :
                                /\ writer[k].module_id = m
                                /\ writer[k].function_name = test.function_name})
       IN  /\ writer' =
                Append(writer, [kind |-> OutcomeAt(m).line[1], module_id |-> m,
                                function_name |-> test.function_name,
                                chunk |-> LineChunks[written + 1]])
           /\ driver' =
                [driver EXCEPT ![m].pc =
                    IF written + 1 = Len(LineChunks) THEN "written" ELSE "writing"]
    /\ UNCHANGED << testing_config, num_threads, tests, executions, reduced, run, boot, filtered, mutex >>

\* the statement ends: the guard is dropped; stats.test_success or
\* stats.test_failure records the test, and the loop goes to the next test
Unlock(m) ==
    /\ driver[m].pc = "written"
    /\ mutex' = None
    /\ driver' =
        [driver EXCEPT
            ![m].pc = "running",
            ![m].next = @ + 1,
            ![m].stats =
                IF OutcomeAt(m).success # None
                THEN test_success(@, OutcomeAt(m).success[1], m)
                ELSE test_failure(@, OutcomeAt(m).failure[1], m)]
    /\ UNCHANGED << testing_config, num_threads, tests, writer, executions, reduced, run, boot, filtered >>

\* writeln!(guard, ..).unwrap() on a writer that returns an error for the next
\* piece: the driver panics with the guard alive; unwinding drops the guard,
\* which leaves the mutex poisoned, and goes on through the pool into run()
\* (the poisoned mutex is written as held by 0, which is no driver)
Poisoned == Some(0)
WriteFails(m) ==
    /\ driver[m].pc = "writing"
    /\ mutex' = Poisoned
    /\ driver' = [driver EXCEPT ![m].pc = "panicked"]
    /\ run' = "panicked"
    /\ UNCHANGED << testing_config, num_threads, tests, writer, executions, reduced, boot, filtered >>

\* self.writer.lock().unwrap() on the poisoned mutex: lock() returns the
\* PoisonError at once and unwrap() panics; the driver does not wait
LockPoisoned(m) ==
    /\ driver[m].pc = "locking"
    /\ mutex = Poisoned
    /\ driver' = [driver EXCEPT ![m].pc = "panicked"]
    /\ run' = "panicked"
    /\ UNCHANGED << testing_config, num_threads, tests, writer, executions, reduced, boot, filtered, mutex >>

\* The iteration with check_stackless_vm in the order of its statements: the
\* primary VM is executed, then the stackless VM, then the two results are
\* compared, then the property checker's report is examined, then the match on
\* the primary result is made.  Each step appends its name to the execution's
\* `calls`.

\* the end of an iteration: the line is written and the test recorded, or the
\* driver panics
Settle(m, outcome) ==
    IF outcome.panicked
    THEN /\ driver' = [driver EXCEPT ![m].pc = "panicked"]
         /\ run' = "panicked"
         /\ UNCHANGED writer
    ELSE /\ writer' =
            Append(writer, [kind |-> outcome.line[1], module_id |-> m,
                            function_name |-> tests[m][driver[m].next].function_name])
         /\ driver' =
            [driver EXCEPT
                ![m].pc = "running",
                ![m].next = @ + 1,
                ![m].stats =
                    IF outcome.success # None
                    THEN test_success(@, outcome.success[1], m)
                    ELSE test_failure(@, outcome.failure[1], m)]
         /\ UNCHANGED run

\* the TestRunInfo execute_via_move_vm returned for the test the driver is at
PrimaryRunInfo(m) ==
    LET ex == executions[m][driver[m].next]
    IN  execute_via_move_vm(testing_config, ex.function_name, ex.vm_result,
                            ex.remaining_gas).test_run_info[1]

\* let (_cs_result, _ext_result, exec_result, test_run_info) =
\*     self.execute_via_move_vm(test_plan, function_name, test_info);
ExecuteViaMoveVM(m, vm_runs) ==
    /\ run = "running"
    /\ driver[m].pc = "running"
    /\ driver[m].next <= Len(tests[m])
    /\ testing_config.check_stackless_vm
    /\ \E vm \in vm_runs :
        LET test == tests[m][driver[m].next]
            primary ==
                execute_via_move_vm(testing_config, test.function_name,
                                    vm.vm_result, vm.remaining_gas)
        IN  /\ primary.test_run_info # None
            /\ executions' =
                [executions EXCEPT ![m] =
                    Append(@, [function_name |-> test.function_name,
                               starting_storage_state |-> storage,
                               vm_result |-> vm.vm_result,
                               remaining_gas |-> vm.remaining_gas,
                               exec_result |-> primary.return_result,
                               stackless_vm_result |-> None,
                               prop_check_result |-> None,
                               calls |-> << "execute_via_move_vm" >>])]
            /\ storage' =
                starting_storage_state_after(storage, ChangeSet(m, test.function_name))
    /\ driver' = [driver EXCEPT ![m].pc = "move_vm"]
    /\ UNCHANGED << testing_config, num_threads, tests, writer, reduced, run, module_info, main, filtered, mutex >>

\* let (stackless_vm_result, _, prop_check_result) =
\*     self.execute_via_stackless_vm(..);
ExecuteViaStacklessVM(m, stackless_results, prop_results) ==
    /\ driver[m].pc = "move_vm"
    /\ \E interpreted \in stackless_results, prop \in prop_results :
        LET stackless ==
                execute_via_stackless_vm(tests[m][driver[m].next].function_name,
                                         interpreted, prop)
        IN  executions' =
                [executions EXCEPT
                    ![m][driver[m].next].stackless_vm_result = Some(stackless.return_result),
                    ![m][driver[m].next].prop_check_result = stackless.prop_check_result,
                    ![m][driver[m].next].calls = Append(@, "execute_via_stackless_vm")]
    /\ driver' = [driver EXCEPT ![m].pc = "stackless_vm"]
    /\ UNCHANGED << testing_config, num_threads, tests, writer, reduced, run, boot, filtered, mutex >>

\* if stackless_vm_result != move_vm_result { .. mismatch ..; continue; }
\* (faulty variant, which C33 tells apart: the property checker's report is
\* examined first, and settles the test where it is a failure)
Compare_after_the_property(m) ==
    /\ driver[m].pc = "stackless_vm"
    /\ LET ex == executions[m][driver[m].next]
           move_vm_result == adapt_move_vm_result(ex.exec_result)
       IN  IF ex.prop_check_result # None
           THEN /\ executions' =
                    [executions EXCEPT ![m][driver[m].next].calls = Append(@, "property")]
                /\ Settle(m, Fail("FAIL",
                                  TestFailure(property(ex.prop_check_result[1]),
                                              PrimaryRunInfo(m), None)))
           ELSE /\ executions' =
                    [executions EXCEPT ![m][driver[m].next].calls = Append(@, "compare")]
                /\ IF ex.stackless_vm_result[1] # move_vm_result
                   THEN Settle(m, Fail("FAIL",
                                       TestFailure(mismatch(move_vm_result,
                                                            ex.stackless_vm_result[1]),
                                                   PrimaryRunInfo(m), None)))
                   ELSE /\ driver' = [driver EXCEPT ![m].pc = "matching"]
                        /\ UNCHANGED << writer, run >>
    /\ UNCHANGED << testing_config, num_threads, tests, reduced, boot, filtered, mutex >>
Compare(m) ==
    /\ driver[m].pc = "stackless_vm"
    /\ executions' = [executions EXCEPT ![m][driver[m].next].calls = Append(@, "compare")]
    /\ LET ex == executions[m][driver[m].next]
           move_vm_result == adapt_move_vm_result(ex.exec_result)
       IN  IF ex.stackless_vm_result[1] # move_vm_result
           THEN Settle(m, Fail("FAIL",
                               TestFailure(mismatch(move_vm_result,
                                                    ex.stackless_vm_result[1]),
                                           PrimaryRunInfo(m), None)))
           ELSE /\ driver' = [driver EXCEPT ![m].pc = "compared"]
                /\ UNCHANGED << writer, run >>
    /\ UNCHANGED << testing_config, num_threads, tests, reduced, boot, filtered, mutex >>

\* if let Some(prop_failure) = prop_check_result { .. property ..; continue; }
ExamineProperty(m) ==
    /\ driver[m].pc = "compared"
    /\ executions' = [executions EXCEPT ![m][driver[m].next].calls = Append(@, "property")]
    /\ LET ex == executions[m][driver[m].next]
       IN  IF ex.prop_check_result # None
           THEN Settle(m, Fail("FAIL",
                               TestFailure(property(ex.prop_check_result[1]),
                                           PrimaryRunInfo(m), None)))
           ELSE /\ driver' = [driver EXCEPT ![m].pc = "matching"]
                /\ UNCHANGED << writer, run >>
    /\ UNCHANGED << testing_config, num_threads, tests, reduced, boot, filtered, mutex >>

\* match exec_result { .. }
Match(m) ==
    /\ driver[m].pc = "matching"
    /\ executions' = [executions EXCEPT ![m][driver[m].next].calls = Append(@, "match")]
    /\ Settle(m, match_exec_result(tests[m][driver[m].next].test_info.expected_failure,
                                   executions[m][driver[m].next].exec_result,
                                   PrimaryRunInfo(m)))
    /\ UNCHANGED << testing_config, num_threads, tests, reduced, boot, filtered, mutex >>

\* The loop is over: the driver returns its stats, which the reduce folds into
\* the identity: TestStatistics::new().combine(stats).
\* (faulty variant, which C15 tells apart: `return stats` where a failure was
\* recorded)
ReturnStats_on_a_failure(m) ==
    /\ run = "running"
    /\ driver[m].pc = "running"
    /\ driver[m].next > Len(tests[m]) \/ DOMAIN driver[m].stats.failed # {}
    /\ driver' = [driver EXCEPT ![m].pc = "returned"]
    /\ reduced' = reduced \cup {[first |-> m, last |-> m,
                                 stats |-> combine(new, driver[m].stats)]}
    /\ UNCHANGED << testing_config, num_threads, tests, writer, executions, run, boot, filtered, mutex >>
ReturnStats(m) ==
    /\ run = "running"
    /\ driver[m].pc = "running"
    /\ driver[m].next > Len(tests[m])
    /\ driver' = [driver EXCEPT ![m].pc = "returned"]
    /\ reduced' = reduced \cup {[first |-> m, last |-> m,
                                 stats |-> combine(new, driver[m].stats)]}
    /\ UNCHANGED << testing_config, num_threads, tests, writer, executions, run, boot, filtered, mutex >>

\* reduce: two adjacent segments are combined, the earlier one as acc
\* (faulty variant, which C14 tells apart: |acc, stats| stats)
Combine_dropping_acc(a, b) ==
    /\ run = "running"
    /\ a \in reduced /\ b \in reduced
    /\ a.last + 1 = b.first
    /\ reduced' = (reduced \ {a, b})
                    \cup {[first |-> a.first, last |-> b.last, stats |-> b.stats]}
    /\ UNCHANGED << testing_config, num_threads, tests, driver, writer, executions, run, boot, filtered, mutex >>
Combine(a, b) ==
    /\ run = "running"
    /\ a \in reduced /\ b \in reduced
    /\ a.last + 1 = b.first
    /\ reduced' = (reduced \ {a, b})
                    \cup {[first |-> a.first, last |-> b.last,
                           stats |-> combine(a.stats, b.stats)]}
    /\ UNCHANGED << testing_config, num_threads, tests, driver, writer, executions, run, boot, filtered, mutex >>

\* Ok(TestResults::new(final_statistics, self.tests)) once everything is reduced
\* (faulty variant, which C36 tells apart: the results are built from what is
\* reduced so far, drivers still running)
Finish_before_the_barrier ==
    /\ run = "running"
    /\ Cardinality(reduced) = 1
    /\ run' = "Ok"
    /\ UNCHANGED << testing_config, num_threads, tests, driver, writer, executions, reduced, boot, filtered, mutex >>
Finish ==
    /\ run = "running"
    /\ \A m \in DOMAIN driver : driver[m].pc = "returned"
    /\ Cardinality(reduced) = 1
    /\ run' = "Ok"
    /\ UNCHANGED << testing_config, num_threads, tests, driver, writer, executions, reduced, boot, filtered, mutex >>

final_statistics == (CHOOSE seg \in reduced : TRUE).stats

\* ------------------------------------------------------- the Solana backend

\* u64::MAX, the return value that marks an internal error of the Solana VM:
\* the u64 of result.return_value is cut down to the abort codes and one value
\* above them
u64_MAX == MaxAbortCode + 1

\* move_to_solana::runner::ExitReason as the match takes it: Success, Abort, or
\* any other reason
ExitReasons == {"Success", "Abort", "Other"}

\* what move_to_solana::run_for_unit_test returns: the shared object, or the
\* diagnostics of a failed bytecode generation
Codegens == {Ok(<< >>), Err("diagnostics")}

\* the result of move_to_solana::runner::run_solana_vm
SolanaResults ==
    [exit_reason : ExitReasons, return_value : 0 .. u64_MAX, compute_units : {1},
     log : {"log"}]

move_to_solana_error(diagnostics) ==
    Reason("MoveToSolanaError", None, None, None, None, None, Some(diagnostics))
solana_vm_error(log) == Reason("SolanaVMError", None, None, None, None, None, Some(log))

\* match (test_info.expected_failure.as_ref(), &result.exit_reason), arm by arm
solana_match(function_name, test_info, result) ==
    LET expected == test_info.expected_failure
        reason == result.exit_reason
        test_run_info == TestRunInfo(function_name, result.compute_units)
        aborted == MoveError("ABORTED", Some(result.return_value), "Undefined")
        with_code ==
            \/ expected.kind = "ExpectedWithCodeDEPRECATED"
            \/ expected.kind = "ExpectedWithError" /\ expected.err[1].sub # None
        exp_abort_code ==
            IF expected.kind = "ExpectedWithCodeDEPRECATED" THEN expected.code[1]
            ELSE expected.err[1].sub[1]
    IN  IF /\ expected.kind \in {"None", "ExpectedWithCodeDEPRECATED", "ExpectedWithError"}
           /\ reason = "Abort"
           /\ result.return_value = u64_MAX
        THEN Fail("FAIL",
                  TestFailure(unexpected_error(MoveError("UNKNOWN_STATUS", None, "Undefined")),
                              test_run_info, None))
        ELSE IF expected.kind = "None" /\ reason = "Abort"
        THEN Fail("FAIL", TestFailure(unexpected_error(aborted), test_run_info, None))
        ELSE IF with_code /\ reason = "Abort"
        THEN IF result.return_value = exp_abort_code
             THEN Pass(test_run_info)
             ELSE Fail("FAIL",
                       TestFailure(wrong_abort_deprecated(exp_abort_code, aborted),
                                   test_run_info, None))
        ELSE IF expected.kind # "None" /\ reason = "Success"
        THEN Fail("FAIL", TestFailure(no_error, test_run_info, None))
        ELSE IF \/ expected.kind = "None" /\ reason = "Success"
                \/ expected.kind = "Expected" /\ reason = "Abort"
        THEN Pass(test_run_info)
        ELSE Fail("FAIL", TestFailure(solana_vm_error(result.log), test_run_info, None))

\* One iteration of the loop of exec_module_tests_solana: the bytecode of the
\* test is generated and run, the line is written and the test recorded; where
\* the generation fails, the test is recorded as failed and `return stats`
\* ends the driver, whose statistics go to the reduce
SolanaIteration(m, codegens, results) ==
    /\ run = "running"
    /\ driver[m].pc = "running"
    /\ driver[m].next <= Len(tests[m])
    /\ \E shared_object \in codegens, result \in results :
        LET test == tests[m][driver[m].next]
            generated == shared_object.tag = "Ok"
            outcome ==
                IF generated
                THEN solana_match(test.function_name, test.test_info, result)
                ELSE Fail("FAIL",
                          TestFailure(move_to_solana_error(shared_object.err[1]),
                                      TestRunInfo(test.function_name, 0), None))
            stats ==
                IF outcome.success # None
                THEN test_success(driver[m].stats, outcome.success[1], m)
                ELSE test_failure(driver[m].stats, outcome.failure[1], m)
        IN  /\ generated \/ result = CHOOSE r \in results : TRUE
            /\ executions' =
                [executions EXCEPT ![m] =
                    Append(@, [function_name |-> test.function_name,
                               shared_object |-> shared_object,
                               result |-> IF generated THEN Some(result) ELSE None])]
            /\ writer' =
                Append(writer, [kind |-> outcome.line[1], module_id |-> m,
                                function_name |-> test.function_name])
            /\ driver' =
                [driver EXCEPT
                    ![m].pc = IF generated THEN "running" ELSE "returned",
                    ![m].next = @ + 1,
                    ![m].stats = stats]
            /\ reduced' =
                IF generated THEN reduced
                ELSE reduced \cup {[first |-> m, last |-> m, stats |-> combine(new, stats)]}
    /\ UNCHANGED << testing_config, num_threads, tests, run, boot, filtered, mutex >>

\* ------------------------------------------- bootstrap and command line tool

\* the sequences that hold every element of a set once
Orders(set) ==
    {order \in [1 .. Cardinality(set) -> set] :
        \A i, j \in DOMAIN order : order[i] = order[j] => i = j}

\* Modules::compute_dependency_graph().compute_topological_order(): the orders
\* in which every module comes after the modules it depends on; there is none
\* where the graph has a cycle, and the call returns an error
compute_topological_order(info) ==
    {order \in Orders(DOMAIN info) :
        \A i, j \in DOMAIN order : order[j] \in info[order[i]] => j < i}

\* TestRunner::new, up to the loop of setup_test_storage: the topological order
\* is computed; on an error `?` returns it from setup_test_storage and from
\* TestRunner::new, and unwrapping it ends the tool with a panic
\* (faulty variant, which C19 tells apart: on a cycle the modules without
\* dependencies are published before the error is returned)
SetupTestStorage_publishing_until_cycle ==
    /\ main.pc = "new"
    /\ \/ /\ compute_topological_order(module_info) = {}
          /\ \E order \in Orders({m \in DOMAIN module_info : module_info[m] = {}}) :
                storage' = order
          /\ main' = [main EXCEPT !.pc = "exit", !.exit_code = Some(101)]
       \/ /\ \E order \in compute_topological_order(module_info) :
                main' = [main EXCEPT !.pc = "publish", !.order = order]
          /\ UNCHANGED storage
    /\ UNCHANGED << testing_config, num_threads, tests, driver, writer, executions, reduced, run, module_info, filtered, mutex >>
SetupTestStorage ==
    /\ main.pc = "new"
    /\ \/ /\ compute_topological_order(module_info) = {}
          /\ main' = [main EXCEPT !.pc = "exit", !.exit_code = Some(101)]
       \/ \E order \in compute_topological_order(module_info) :
            main' = [main EXCEPT !.pc = "publish", !.order = order]
    /\ UNCHANGED << testing_config, num_threads, tests, driver, writer, executions, reduced, run, module_info, storage, filtered, mutex >>

\* one turn of the loop of setup_test_storage:
\* storage.publish_or_overwrite_module(module_id, module_bytes)
Publish ==
    /\ main.pc = "publish"
    /\ Len(storage) < Len(main.order)
    /\ storage' = Append(storage, main.order[Len(storage) + 1])
    /\ UNCHANGED << testing_config, num_threads, tests, driver, writer, executions, reduced, run, module_info, main, filtered, mutex >>

\* the loop of setup_test_storage is over: Ok(storage), TestRunner::new returns
\* Ok(Self { .. }) and run() is called on the runner
\* (faulty variant, which C20 tells apart: the runner is handed the storage
\* while modules are still to be published)
NewRunner_before_the_loop_ends ==
    /\ main.pc = "publish"
    /\ main' = [main EXCEPT !.pc = "run"]
    /\ run' = "running"
    /\ UNCHANGED << testing_config, num_threads, tests, driver, writer, executions, reduced, module_info, storage, filtered, mutex >>
NewRunner ==
    /\ main.pc = "publish"
    /\ Len(storage) = Len(main.order)
    /\ main' = [main EXCEPT !.pc = "run"]
    /\ run' = "running"
    /\ UNCHANGED << testing_config, num_threads, tests, driver, writer, executions, reduced, module_info, storage, filtered, mutex >>

\* str::contains, on strings as sequences of characters
contains(self, pat) ==
    \E i \in 0 .. Len(self) - Len(pat) : SubSeq(self, i + 1, i + Len(pat)) = pat

\* format!("{}::{}", module_id.name().as_str(), test_name.as_str())
full_name(module_id, test_name) == module_id.name \o << ":", ":" >> \o test_name

\* TestRunner::filter on self.tests.module_tests: a module whose name contains
\* the slice is left as it is; of any other module the tests are kept whose
\* full name contains the slice, in their order.  A module stays in the plan
\* when none of its tests does.
\* (faulty variants: one that collects the kept tests under their full name,
\* which C22 tells apart, and one that looks for the slice in the test's name
\* alone, which C23 tells apart)
filter_keying_by_full_name(module_tests, test_name_slice) ==
    [module_id \in DOMAIN module_tests |->
        IF contains(module_id.name, test_name_slice)
        THEN module_tests[module_id]
        ELSE LET kept ==
                    SelectSeq(module_tests[module_id],
                              LAMBDA test :
                                contains(full_name(module_id, test.function_name),
                                         test_name_slice))
             IN  [i \in DOMAIN kept |->
                    [kept[i] EXCEPT !.function_name = full_name(module_id, @)]]]
filter_on_test_names(module_tests, test_name_slice) ==
    [module_id \in DOMAIN module_tests |->
        IF contains(module_id.name, test_name_slice)
        THEN module_tests[module_id]
        ELSE SelectSeq(module_tests[module_id],
                       LAMBDA test : contains(test.function_name, test_name_slice))]
filter(module_tests, test_name_slice) ==
    [module_id \in DOMAIN module_tests |->
        IF contains(module_id.name, test_name_slice)
        THEN module_tests[module_id]
        ELSE SelectSeq(module_tests[module_id],
                       LAMBDA test :
                         contains(full_name(module_id, test.function_name),
                                  test_name_slice))]

\* test_runner.filter(slice) on the runner TestRunner::new returned, before run()
Filter(test_name_slice) ==
    /\ main.pc = "filter"
    /\ Len(filtered) < MaxFilters
    /\ tests' = filter(tests, test_name_slice)
    /\ filtered' = Append(filtered, [test_name_slice |-> test_name_slice, tests |-> tests])
    /\ UNCHANGED << testing_config, num_threads, driver, writer, executions, reduced, run, boot, mutex >>

\* the place of a test's name in the order of the names
NameIndex(function_ident) ==
    CHOOSE i \in DOMAIN FunctionNames : FunctionNames[i] = function_ident

\* Ord of TestRunInfo (derived): by function_ident, then instructions_executed
run_info_lt(a, b) ==
    \/ NameIndex(a.function_ident) < NameIndex(b.function_ident)
    \/ /\ a.function_ident = b.function_ident
       /\ a.instructions_executed < b.instructions_executed

\* BTreeSet<TestRunInfo>::iter: the elements in ascending order
RECURSIVE iter_passed(_)
iter_passed(test_results) ==
    IF test_results = {} THEN << >>
    ELSE LET least == CHOOSE x \in test_results :
                        \A y \in test_results : ~run_info_lt(y, x)
         IN  << least >> \o iter_passed(test_results \ {least})

\* BTreeSet<TestFailure>::iter: ascending, by test_run_info first
RECURSIVE iter_failed(_)
iter_failed(test_failures) ==
    IF test_failures = {} THEN << >>
    ELSE LET least == CHOOSE x \in test_failures :
                        \A y \in test_failures :
                            ~run_info_lt(y.test_run_info, x.test_run_info)
         IN  << least >> \o iter_failed(test_failures \ {least})

\* the (qualified name, gas) of the tests of a map of final_statistics, module
\* by module in the order of the module ids: `for (module_id, ..) in map.iter()`
RECURSIVE stats_of(_, _)
stats_of(map, passed) ==
    IF DOMAIN map = {} THEN << >>
    ELSE LET module_id == CHOOSE k \in DOMAIN map : \A j \in DOMAIN map : k <= j
             infos ==
                IF passed THEN iter_passed(map[module_id])
                ELSE LET failures == iter_failed(map[module_id])
                     IN  [i \in DOMAIN failures |-> failures[i].test_run_info]
         IN  [i \in DOMAIN infos |->
                [line |-> "row",
                 name |-> << module_id, infos[i].function_ident >>,
                 gas |-> infos[i].instructions_executed]]
             \o stats_of([k \in DOMAIN map \ {module_id} |-> map[k]], passed)

\* the box-drawing table of report_statistics
table(stats) ==
    IF stats = << >> THEN << >>
    ELSE << [line |-> "top"], [line |-> "heading"] >>
         \o [i \in 1 .. 2 * Len(stats) |->
                IF i % 2 = 1 THEN [line |-> "separator"] ELSE stats[i \div 2]]
         \o << [line |-> "bottom"] >>

\* TestResults::report_statistics: what it writes to the writer (out) and to
\* standard error (err).  "csv": the header and a row per entry of passed, and
\* return.  Any other format: a warning; then, as without a format, the title,
\* the table of passed and failed entries, an empty line.
\* (faulty variant, which C31 tells apart: the rows of the csv are those of the
\* table)
report_statistics_with_failed_rows(self, report_format) ==
    IF report_format = Some("csv")
    THEN [out |-> << [line |-> "header", text |-> "name,nanos,gas"] >>
                    \o stats_of(self.final_statistics.passed, TRUE)
                    \o stats_of(self.final_statistics.failed, FALSE),
          err |-> << >>]
    ELSE [out |-> << [line |-> "title", text |-> "Test Statistics:"] >>
                    \o table(stats_of(self.final_statistics.passed, TRUE)
                                \o stats_of(self.final_statistics.failed, FALSE))
                    \o << [line |-> "empty"] >>,
          err |-> IF report_format = None THEN << >>
                  ELSE << [line |-> "unknown format", text |-> report_format[1]] >>]
report_statistics(self, report_format) ==
    IF report_format = Some("csv")
    THEN [out |-> << [line |-> "header", text |-> "name,nanos,gas"] >>
                    \o stats_of(self.final_statistics.passed, TRUE),
          err |-> << >>]
    ELSE [out |-> << [line |-> "title", text |-> "Test Statistics:"] >>
                    \o table(stats_of(self.final_statistics.passed, TRUE)
                                \o stats_of(self.final_statistics.failed, FALSE))
                    \o << [line |-> "empty"] >>,
          err |-> IF report_format = None THEN << >>
                  ELSE << [line |-> "unknown format", text |-> report_format[1]] >>]

\* run() has returned Ok(test_results):
\* test_results.report_statistics(writer, report_format)
ReportStatistics(report_format) ==
    /\ main.pc = "run"
    /\ run = "Ok"
    /\ main.report = None
    /\ main' = [main EXCEPT
                    !.report = Some([report_format |-> report_format]
                                    @@ report_statistics([final_statistics |-> final_statistics],
                                                         report_format))]
    /\ UNCHANGED << testing_config, num_threads, tests, driver, writer, executions, reduced, run, module_info, storage, filtered, mutex >>

\* run() has returned Ok(test_results): test_results.summarize(writer)
Summarize ==
    /\ main.pc = "run"
    /\ run = "Ok"
    /\ main' = [main EXCEPT !.pc = "summarized",
                            !.summary = Some(summarize(final_statistics))]
    /\ UNCHANGED << testing_config, num_threads, tests, driver, writer, executions, reduced, run, module_info, storage, filtered, mutex >>

\* run_and_report_unit_tests: Ok((writer, ok)), ok being what summarize returned
run_and_report_unit_tests(ok) == [tag |-> "Ok", ok |-> ok]

\* main: args.run_and_report_unit_tests(..).unwrap(), and main returns: the
\* process ends with 0 after an Ok, with a panic's 101 after an Err
exit_code_of(result) == IF result.tag = "Ok" THEN 0 ELSE 101

Exit ==
    /\ main.pc = "summarized"
    /\ main' = [main EXCEPT
                    !.pc = "exit",
                    !.exit_code =
                        Some(exit_code_of(run_and_report_unit_tests(main.summary[1].ok)))]
    /\ UNCHANGED << testing_config, num_threads, tests, driver, writer, executions, reduced, run, module_info, storage, filtered, mutex >>

\* ---------------------------------------------------------- specifications

\* Spec: TestRunner::run over plans of two modules with up to MaxTests tests in
\* all, the tests expecting nothing or a failure in turn.  A test runs to its
\* end or out of gas on the primary VM, and so it does on the stackless VM; the
\* primary VM honours its contract (it never returns Err with status EXECUTED).
RunExpectation(m, i) == IF (m + i) % 2 = 0 THEN NoExpectation ELSE Expected
RunPlans ==
    {[m \in ModuleIds |-> [i \in 1 .. n[m] |-> Test(i, RunExpectation(m, i))]] :
        n \in {k \in [ModuleIds -> 0 .. MaxTests] : k[1] + k[2] <= MaxTests}}
OutOfGas(exec_state) ==
    Err([major |-> "OUT_OF_GAS", sub |-> None, loc |-> "Undefined",
         exec_state |-> exec_state])
RunVMRuns ==
    {[vm_result |-> Ok(<< >>), remaining_gas |-> 0],
     [vm_result |-> OutOfGas(TRUE), remaining_gas |-> 0]}
RunStacklessResults == {Ok(<< >>), OutOfGas(FALSE)}

Init ==
    /\ testing_config \in Configs
    /\ num_threads \in 1 .. MaxThreads
    /\ tests \in RunPlans
    /\ driver = [m \in ModuleIds |-> IdleDriver]
    /\ writer = << >>
    /\ executions = [m \in ModuleIds |-> << >>]
    /\ reduced = {}
    /\ run = "running"
    /\ module_info = [m \in ModuleIds |-> {}]
    /\ storage = << 1, 2 >>
    /\ main = Constructed(<< 1, 2 >>)
    /\ filtered = << >>
    /\ mutex = None

Next ==
    \/ \E m \in DOMAIN tests : StartModule(m)
    \/ \E m \in DOMAIN tests :
        LoopIteration(m, RunVMRuns, RunStacklessResults, PropCheckResults)
    \/ \E m \in DOMAIN tests : ReturnStats(m)
    \/ \E a, b \in reduced : Combine(a, b)
    \/ Finish

Spec == Init /\ [][Next]_vars

\* SpecDriver: exec_module_tests_move_vm_and_stackless_vm on a module of one
\* test, for every expectation, every configuration and everything the two
\* backends may return within the VM's contract.
InitDriver ==
    /\ testing_config \in Configs
    /\ num_threads = 1
    /\ \E e \in ExpectedFailures : tests = [m \in {1} |-> << Test(1, e) >>]
    /\ driver = [m \in {1} |-> [IdleDriver EXCEPT !.pc = "running"]]
    /\ writer = << >>
    /\ executions = [m \in {1} |-> << >>]
    /\ reduced = {}
    /\ run = "running"
    /\ module_info = [m \in {1} |-> {}]
    /\ storage = << 1 >>
    /\ main = Constructed(<< 1 >>)
    /\ filtered = << >>
    /\ mutex = None

NextDriver ==
    \E m \in DOMAIN tests :
        LoopIteration(m, VMRuns(VMResults(ContractStatusCodes)),
                      StacklessResults(ContractStatusCodes), PropCheckResults)

SpecDriver == InitDriver /\ [][NextDriver]_vars

\* SpecDriverAnyVM: the same, with a primary VM that may break its contract and
\* return Err with status EXECUTED.
NextDriverAnyVM ==
    \E m \in DOMAIN tests :
        LoopIteration(m, VMRuns(VMResults(StatusCodes)),
                      StacklessResults(StatusCodes), PropCheckResults)

SpecDriverAnyVM == InitDriver /\ [][NextDriverAnyVM]_vars

\* SpecAnyEnv: TestRunner::run as in Spec, in an environment that may fail: the
\* model builder on the source files, the writer on a line.
NextAnyEnv ==
    \/ Next
    \/ \E m \in DOMAIN tests : ModelBuildPanics(m)
    \/ \E m \in DOMAIN tests :
        WritePanics(m, RunVMRuns, RunStacklessResults, PropCheckResults)

SpecAnyEnv == Init /\ [][NextAnyEnv]_vars

\* SpecCli: the command line tool from TestRunner::new to the end of the
\* process, over the plans of at most two tests, the backends as in Spec.  The
\* plan's modules are the two with tests and a library module 0 that depends on
\* nothing; the two may depend on it and on each other.
PlanModules == ModuleIds \cup {0}
DependencyGraphs ==
    {info \in [PlanModules -> SUBSET PlanModules] :
        info[0] = {} /\ \A m \in PlanModules : m \notin info[m]}
CliPlans == {plan \in RunPlans : Len(plan[1]) + Len(plan[2]) <= 2}

InitCli ==
    /\ testing_config \in Configs
    /\ num_threads \in 1 .. MaxThreads
    /\ tests \in CliPlans
    /\ driver = [m \in ModuleIds |-> IdleDriver]
    /\ writer = << >>
    /\ executions = [m \in ModuleIds |-> << >>]
    /\ reduced = {}
    /\ run = "none"
    /\ module_info \in DependencyGraphs
    /\ storage = << >>
    /\ main = [pc |-> "new", order |-> << >>, summary |-> None, exit_code |-> None,
               report |-> None]
    /\ filtered = << >>
    /\ mutex = None

NextCli ==
    \/ SetupTestStorage
    \/ Publish
    \/ NewRunner
    \/ Next
    \/ Summarize
    \/ Exit

SpecCli == InitCli /\ [][NextCli]_vars

\* SpecReduce: the reduce of run() over the statistics three drivers returned,
\* each any of SomeStatistics: statistics of up to two modules with passed
\* tests, a failed test and test outputs, also of the same module and test.
SomeStatistics ==
    LET i1 == TestRunInfo("t1", 0)
        i2 == TestRunInfo("t2", 1)
        f == TestFailure(timeout, TestRunInfo("t3", 1), None)
    IN  [passed : {EmptyMap, 1 :> {i1}, 2 :> {i1}, 1 :> {i2}, 1 :> {},
                   (1 :> {i1}) @@ (2 :> {i2})},
         failed : {EmptyMap, 1 :> {f}},
         output : {EmptyMap, 1 :> ("t1" :> "a"), 1 :> ("t1" :> "b"), 2 :> ("t1" :> "a")}]
Positions == {1, 2, 3}

InitReduce ==
    /\ testing_config \in {c \in Configs : ~c.check_stackless_vm /\ ~c.report_stacktrace_on_abort}
    /\ num_threads = 1
    /\ tests = [m \in Positions |-> << >>]
    /\ \E returned \in [Positions -> SomeStatistics] :
        /\ driver = [m \in Positions |-> [pc |-> "returned", next |-> 1, stats |-> returned[m]]]
        /\ reduced = {[first |-> m, last |-> m, stats |-> combine(new, returned[m])] :
                        m \in Positions}
    /\ writer = << >>
    /\ executions = [m \in Positions |-> << >>]
    /\ run = "running"
    /\ module_info = [m \in ModuleIds |-> {}]
    /\ storage = << 1, 2 >>
    /\ main = Constructed(<< 1, 2 >>)
    /\ filtered = << >>
    /\ mutex = None

NextReduce ==
    \/ \E a, b \in reduced : Combine(a, b)
    \/ Finish

SpecReduce == InitReduce /\ [][NextReduce]_vars

\* SpecFilter: calls of TestRunner::filter on a runner that holds a plan of two
\* modules at one address, named "a" and "ba", each with any of the tests "a",
\* "ab" and "b" (a BTreeMap: in the order of their names).  The slices are
\* empty, parts of module names, of test names, of the separator, across the
\* separator, and one that is nowhere.
FilterModuleIds == {[address |-> 1, name |-> << "a" >>], [address |-> 1, name |-> << "b", "a" >>]}
FilterTestNames == << << "a" >>, << "a", "b" >>, << "b" >> >>
FilterPlans ==
    {[module_id \in FilterModuleIds |->
        LET names == SelectSeq(FilterTestNames, LAMBDA name : name \in chosen[module_id])
        IN  [i \in DOMAIN names |->
                [function_name |-> names[i], test_info |-> TestCase(NoExpectation)]]] :
        chosen \in [FilterModuleIds -> SUBSET {FilterTestNames[i] : i \in DOMAIN FilterTestNames}]}
Slices ==
    {<< >>, << "a" >>, << "b" >>, << "a", "b" >>, << "b", "a" >>, << ":" >>,
     << ":", ":" >>, << "a", ":", ":", "a" >>, << "a", ":", ":", "b" >>,
     << ":", "b" >>, << "b", ":" >>, << "c" >>}

InitFilter ==
    /\ testing_config \in {c \in Configs : ~c.check_stackless_vm /\ ~c.report_stacktrace_on_abort}
    /\ num_threads = 1
    /\ tests \in FilterPlans
    /\ driver = [m \in FilterModuleIds |-> IdleDriver]
    /\ writer = << >>
    /\ executions = [m \in FilterModuleIds |-> << >>]
    /\ reduced = {}
    /\ run = "none"
    /\ module_info = [m \in FilterModuleIds |-> {}]
    /\ storage = << >>
    /\ main = [pc |-> "filter", order |-> << >>, summary |-> None, exit_code |-> None,
               report |-> None]
    /\ filtered = << >>
    /\ mutex = None

NextFilter == \E test_name_slice \in Slices : Filter(test_name_slice)

SpecFilter == InitFilter /\ [][NextFilter]_vars

\* SpecWriter: TestRunner::run with the iteration of the loop in the steps
\* other workers can see (Execute, Lock, WriteChunk, Unlock), single backend,
\* over the plans of Spec; a test runs to its end or out of gas.
InitWriter ==
    /\ testing_config \in
            {c \in Configs : ~c.check_stackless_vm /\ ~c.report_stacktrace_on_abort}
    /\ num_threads \in 1 .. MaxThreads
    /\ tests \in RunPlans
    /\ driver = [m \in ModuleIds |-> IdleDriver]
    /\ writer = << >>
    /\ executions = [m \in ModuleIds |-> << >>]
    /\ reduced = {}
    /\ run = "running"
    /\ module_info = [m \in ModuleIds |-> {}]
    /\ storage = << 1, 2 >>
    /\ main = Constructed(<< 1, 2 >>)
    /\ filtered = << >>
    /\ mutex = None

NextWriter ==
    \/ \E m \in DOMAIN tests : StartModule(m)
    \/ \E m \in DOMAIN tests :
        Execute(m, RunVMRuns, RunStacklessResults, PropCheckResults)
    \/ \E m \in DOMAIN tests : Lock(m)
    \/ \E m \in DOMAIN tests : WriteChunk(m)
    \/ \E m \in DOMAIN tests : Unlock(m)
    \/ \E m \in DOMAIN tests : ReturnStats(m)
    \/ \E a, b \in reduced : Combine(a, b)
    \/ Finish

SpecWriter == InitWriter /\ [][NextWriter]_vars

\* what the worker that drives module m does, and what the thread that called
\* run() does with the statistics the drivers return
WorkerStep(m) ==
    \/ StartModule(m)
    \/ Execute(m, RunVMRuns, RunStacklessResults, PropCheckResults)
    \/ Lock(m)
    \/ LockPoisoned(m)
    \/ WriteChunk(m)
    \/ Unlock(m)
    \/ ReturnStats(m)
ReduceStep == (\E a, b \in reduced : Combine(a, b)) \/ Finish

\* the pool runs every worker that can take a step, and the reduce goes on
\* when it can; nothing is assumed about who gets the writer's lock
FairWorkers == (\A m \in ModuleIds : WF_vars(WorkerStep(m))) /\ WF_vars(ReduceStep)

\* SpecWriterFair: SpecWriter under fair scheduling, on a writer that takes
\* every piece.
SpecWriterFair == SpecWriter /\ FairWorkers

\* SpecWriterAnyEnv: the same under fair scheduling on a writer that may return
\* an error for a piece of a line.
NextWriterAnyEnv ==
    \/ NextWriter
    \/ \E m \in DOMAIN tests : WriteFails(m)
    \/ \E m \in DOMAIN tests : LockPoisoned(m)

SpecWriterAnyEnv == InitWriter /\ [][NextWriterAnyEnv]_vars /\ FairWorkers

\* SpecSolana: TestRunner::run with the Solana backend, over plans of two
\* modules with up to MaxTests tests in all whose expectations take every form
\* in turn; the bytecode generation of a test succeeds or fails, and the
\* Solana VM ends with any exit reason and return value.
SolanaExpectations ==
    << NoExpectation, ExpectedWithCodeDEPRECATED(1), Expected,
       ExpectedWithError(MoveError("ABORTED", Some(0), "Undefined")),
       ExpectedWithError(MoveError("ABORTED", None, "Undefined")) >>
SolanaExpectation(m, i) == SolanaExpectations[((2 * m + i) % Len(SolanaExpectations)) + 1]
SolanaPlans ==
    {[m \in ModuleIds |-> [i \in 1 .. n[m] |-> Test(i, SolanaExpectation(m, i))]] :
        n \in {k \in [ModuleIds -> 0 .. MaxTests] : k[1] + k[2] <= MaxTests}}

InitSolana ==
    /\ testing_config \in
            {c \in Configs : ~c.check_stackless_vm /\ ~c.report_stacktrace_on_abort}
    /\ num_threads \in 1 .. MaxThreads
    /\ tests \in SolanaPlans
    /\ driver = [m \in ModuleIds |-> IdleDriver]
    /\ writer = << >>
    /\ executions = [m \in ModuleIds |-> << >>]
    /\ reduced = {}
    /\ run = "running"
    /\ module_info = [m \in ModuleIds |-> {}]
    /\ storage = << 1, 2 >>
    /\ main = Constructed(<< 1, 2 >>)
    /\ filtered = << >>
    /\ mutex = None

NextSolana ==
    \/ \E m \in DOMAIN tests : StartModule(m)
    \/ \E m \in DOMAIN tests : SolanaIteration(m, Codegens, SolanaResults)
    \/ \E m \in DOMAIN tests : ReturnStats(m)
    \/ \E a, b \in reduced : Combine(a, b)
    \/ Finish

SpecSolana == InitSolana /\ [][NextSolana]_vars

\* SpecDual: exec_module_tests_move_vm_and_stackless_vm with check_stackless_vm
\* on a module of one test, statement by statement, for every expectation and
\* everything the two backends may return within the VM's contract.
InitDual ==
    /\ InitDriver
    /\ testing_config.check_stackless_vm

NextDual ==
    \/ \E m \in DOMAIN tests : ExecuteViaMoveVM(m, VMRuns(VMResults(ContractStatusCodes)))
    \/ \E m \in DOMAIN tests :
        ExecuteViaStacklessVM(m, StacklessResults(ContractStatusCodes), PropCheckResults)
    \/ \E m \in DOMAIN tests : Compare(m)
    \/ \E m \in DOMAIN tests : ExamineProperty(m)
    \/ \E m \in DOMAIN tests : Match(m)

SpecDual == InitDual /\ [][NextDual]_vars

\* SpecReport: TestRunner::run on one thread with a single backend over the
\* plans of Spec, and report_statistics on its results, without a format, with
\* "csv" and with a format it does not know.
ReportFormats == {None, Some("csv"), Some("json")}

InitReport ==
    /\ testing_config \in
            {c \in Configs : ~c.check_stackless_vm /\ ~c.report_stacktrace_on_abort}
    /\ num_threads = 1
    /\ tests \in RunPlans
    /\ driver = [m \in ModuleIds |-> IdleDriver]
    /\ writer = << >>
    /\ executions = [m \in ModuleIds |-> << >>]
    /\ reduced = {}
    /\ run = "running"
    /\ module_info = [m \in ModuleIds |-> {}]
    /\ storage = << 1, 2 >>
    /\ main = Constructed(<< 1, 2 >>)
    /\ filtered = << >>
    /\ mutex = None

NextReport ==
    \/ Next
    \/ \E report_format \in ReportFormats : ReportStatistics(report_format)

SpecReport == InitReport /\ [][NextReport]_vars

\* ------------------------------------------------- reading the statistics

Passed(stats, m) == IF m \in DOMAIN stats.passed THEN stats.passed[m] ELSE {}
Failed(stats, m) == IF m \in DOMAIN stats.failed THEN stats.failed[m] ELSE {}

\* the entries a driver's stats hold for a test of its module
PassedOf(m, fn) == {r \in Passed(driver[m].stats, m) : r.function_ident = fn}
FailedOf(m, fn) ==
    {f \in Failed(driver[m].stats, m) : f.test_run_info.function_ident = fn}

\* the status lines written for a test
LinesOf(m, fn) ==
    {k \in DOMAIN writer : writer[k].module_id = m /\ writer[k].function_name = fn}
OneLine(m, fn, kind) == \E k \in LinesOf(m, fn) : LinesOf(m, fn) = {k} /\ writer[k].kind = kind

\* the test is recorded once, as passed, with a PASS line
RecordedPass(m, fn) ==
    /\ Cardinality(PassedOf(m, fn)) = 1
    /\ FailedOf(m, fn) = {}
    /\ OneLine(m, fn, "PASS")

\* the test is recorded once, as failed with this reason, with a line of this kind
RecordedFailure(m, fn, reason, kind) ==
    /\ PassedOf(m, fn) = {}
    /\ \E f \in FailedOf(m, fn) : FailedOf(m, fn) = {f} /\ f.failure_reason = reason
    /\ OneLine(m, fn, kind)

\* the tests whose iteration is over: << module, index >>
Executed ==
    {t \in (DOMAIN tests) \X (1 .. Len(FunctionNames)) :
        t[2] <= Len(tests[t[1]]) /\ t[2] < driver[t[1]].next}
Execution(t) == executions[t[1]][t[2]]
ExpectationOf(t) == tests[t[1]][t[2]].test_info.expected_failure
NameOf(t) == tests[t[1]][t[2]].function_name
ActualError(ex) ==
    MoveError(ex.exec_result.err[1].major, ex.exec_result.err[1].sub,
              ex.exec_result.err[1].loc)

\* dual-backend mode: the stackless VM ran for this test
Dual(ex) == ex.stackless_vm_result # None
ResultsDiffer(ex) ==
    Dual(ex) /\ ex.stackless_vm_result[1] # adapt_move_vm_result(ex.exec_result)
PropertyFailed(ex) == Dual(ex) /\ ~ResultsDiffer(ex) /\ ex.prop_check_result # None
\* the primary result reaches the outcome matcher
ReachesMatcher(ex) == ~ResultsDiffer(ex) /\ ~PropertyFailed(ex)

\* ----------------------------------------------------------------- claims

\* C1: after run() has returned, every (module, test name) pair of the plan is
\* recorded exactly once in the final statistics, as passed or as failed (never
\* in both, never in neither, never twice), and nothing else is recorded.
C1_EveryTestRecordedOnce ==
    run = "Ok" =>
        /\ DOMAIN final_statistics.passed \cup DOMAIN final_statistics.failed
                \subseteq DOMAIN tests
        /\ \A m \in DOMAIN tests :
            LET names == {tests[m][i].function_name : i \in 1 .. Len(tests[m])}
                passed == Passed(final_statistics, m)
                failed == Failed(final_statistics, m)
            IN  /\ \A r \in passed : r.function_ident \in names
                /\ \A f \in failed : f.test_run_info.function_ident \in names
                /\ \A fn \in names :
                    Cardinality({r \in passed : r.function_ident = fn})
                        + Cardinality({f \in failed : f.test_run_info.function_ident = fn})
                        = 1

\* a finished run, with reference-VM checking, of a plan with a module of two
\* tests that passed and another module with a test that failed
C1_Witness ==
    /\ run = "Ok"
    /\ testing_config.check_stackless_vm
    /\ \E m \in DOMAIN tests : Cardinality(Passed(final_statistics, m)) = 2
    /\ \E m \in DOMAIN tests : Failed(final_statistics, m) # {}


ErrResult(ex) == ex.exec_result.tag = "Err"
OutOfGasResult(ex) == ErrResult(ex) /\ ex.exec_result.err[1].major = "OUT_OF_GAS"
Kind(t) == ExpectationOf(t).kind
FailureKinds(t) == {f.failure_reason.kind : f \in FailedOf(t[1], NameOf(t))}

\* C2 as stated: in any run, a test whose primary execution returns Err with
\* major status OUT_OF_GAS and which expects no failure is recorded as failed
\* with reason Timeout, and its status line is TIMEOUT.
C2_AsStated ==
    \A t \in Executed :
        OutOfGasResult(Execution(t)) /\ Kind(t) = "None"
            => RecordedFailure(t[1], NameOf(t), timeout, "TIMEOUT")

\* C2, amended: such a test is never recorded with reason UnexpectedError; where
\* its result reaches the outcome matcher (single-backend mode, or the two
\* results agree and no property failure is reported) it is recorded as failed
\* with reason Timeout and a TIMEOUT line, and where the results differ or a
\* property fails it is recorded with Mismatch or Property and a FAIL line.
C2_TimeoutWhereMatched ==
    \A t \in Executed :
        OutOfGasResult(Execution(t)) /\ Kind(t) = "None"
            => /\ "UnexpectedError" \notin FailureKinds(t)
               /\ ReachesMatcher(Execution(t))
                    => RecordedFailure(t[1], NameOf(t), timeout, "TIMEOUT")
               /\ ~ReachesMatcher(Execution(t))
                    => /\ FailureKinds(t) \in {{"Mismatch"}, {"Property"}}
                       /\ OneLine(t[1], NameOf(t), "FAIL")

C2_Witness ==
    \E t \in Executed :
        /\ OutOfGasResult(Execution(t)) /\ Kind(t) = "None"
        /\ Dual(Execution(t)) /\ ReachesMatcher(Execution(t))
        /\ FailureKinds(t) = {"Timeout"}

\* C3: when the primary result reaching the outcome matcher is Ok, the test is
\* recorded as passed if and only if it expects no failure; with any expectation
\* it is recorded as failed with reason NoError.
C3_OkPassesIffNoExpectation ==
    \A t \in Executed :
        ~ErrResult(Execution(t)) /\ ReachesMatcher(Execution(t))
            => /\ RecordedPass(t[1], NameOf(t)) <=> Kind(t) = "None"
               /\ Kind(t) \in {"Expected", "ExpectedWithError", "ExpectedWithCodeDEPRECATED"}
                    => RecordedFailure(t[1], NameOf(t), no_error, "FAIL")

C3_Witness ==
    \E t \in Executed :
        /\ ~ErrResult(Execution(t)) /\ ReachesMatcher(Execution(t))
        /\ Kind(t) = "ExpectedWithCodeDEPRECATED"
        /\ FailureKinds(t) = {"NoError"}

C8_MismatchSettlesTheTest ==
    \A t \in Executed :
        LET ex == Execution(t) IN
        ResultsDiffer(ex)
            => RecordedFailure(
                    t[1], NameOf(t),
                    mismatch(adapt_move_vm_result(ex.exec_result),
                             ex.stackless_vm_result[1]),
                    "FAIL")

\* a mismatch recorded where the matcher would have passed the test
C8_Witness ==
    \E t \in Executed :
        /\ ResultsDiffer(Execution(t))
        /\ ErrResult(Execution(t)) /\ Kind(t) = "Expected"
        /\ FailureKinds(t) = {"Mismatch"}

\* C9: in dual-backend mode, when the two results are equal and the property
\* checker reports a failure, the test is recorded as failed with
\* Property(details) and a FAIL line, and the outcome matcher is skipped, also
\* where it would have passed the test.
C9_PropertyFailureSettlesTheTest ==
    \A t \in Executed :
        LET ex == Execution(t) IN
        PropertyFailed(ex)
            => RecordedFailure(t[1], NameOf(t), property(ex.prop_check_result[1]), "FAIL")

\* a property failure recorded for a test that ran to its end and expects that
C9_Witness ==
    \E t \in Executed :
        /\ PropertyFailed(Execution(t))
        /\ ~ErrResult(Execution(t)) /\ Kind(t) = "None"
        /\ FailureKinds(t) = {"Property"}

\* C10: in dual-backend mode, when the results are equal and no property failure
\* is reported, what is recorded for the test (the pass, or the failure with its
\* reason and retained VM error, and the status line) is what the outcome
\* matcher gives for the original primary result and the expectation, which is
\* what single-backend mode records.
C10_DualRecordsWhatTheMatcherGives ==
    \A t \in Executed :
        LET ex == Execution(t)
            info == TestRunInfo(NameOf(t), testing_config.execution_bound - ex.remaining_gas)
            matched == match_exec_result(ExpectationOf(t), ex.exec_result, info)
        IN  Dual(ex) /\ ReachesMatcher(ex)
                => /\ PassedOf(t[1], NameOf(t)) = {x \in {info} : matched.success # None}
                   /\ FailedOf(t[1], NameOf(t)) =
                        {matched.failure[i] : i \in DOMAIN matched.failure}
                   /\ OneLine(t[1], NameOf(t), matched.line[1])

\* the retained VM error carries the execution state the canonicalized result lacks
C10_Witness ==
    \E t \in Executed :
        /\ Dual(Execution(t)) /\ ReachesMatcher(Execution(t))
        /\ \E f \in FailedOf(t[1], NameOf(t)) :
            f.vm_error # None /\ f.vm_error[1].exec_state

\* C11: for the final statistics of every run, summarize returns true if and
\* only if the failed map holds no failure in any module, and the line it
\* prints says OK exactly when it returns true and FAILED otherwise.
C11_SummarizeTrueIffNoFailure ==
    main.summary # None =>
        LET summary == main.summary[1]
            no_failure ==
                \A m \in DOMAIN final_statistics.failed : final_statistics.failed[m] = {}
        IN  /\ summary.ok <=> no_failure
            /\ summary.result = "OK" <=> summary.ok
            /\ summary.result = "FAILED" <=> ~summary.ok

\* a run summarized as FAILED in which a test passed as well
C11_Witness ==
    /\ main.summary # None
    /\ ~main.summary[1].ok
    /\ main.summary[1].result = "FAILED"
    /\ main.summary[1].passed > 0
    /\ main.summary[1].failed > 0

\* the modules statistics hold entries of
ModulesOf(stats) == DOMAIN stats.passed \cup DOMAIN stats.failed \cup DOMAIN stats.output
SameMaps(x, y) == x.passed = y.passed /\ x.failed = y.failed /\ x.output = y.output

\* C12: for any two statistics A and B over disjoint modules, combine(A, B)
\* equals combine(B, A) on the passed, failed and output maps; so what the
\* reduce made of two adjacent drivers' statistics is what it would have made of
\* them in the other order.
C12_CombineCommutes ==
    /\ LET A == driver[1].stats
           B == driver[2].stats
       IN  ModulesOf(A) \cap ModulesOf(B) = {}
                => SameMaps(combine(A, B), combine(B, A))
    /\ \A seg \in reduced :
        LET A == driver[seg.first].stats
            B == driver[seg.last].stats
        IN  seg.last = seg.first + 1 /\ ModulesOf(A) \cap ModulesOf(B) = {}
                => SameMaps(seg.stats, combine(B, A))

\* two drivers' statistics over different modules, each with a passed test and
\* an output, one with a failure, combined by the reduce
C12_Witness ==
    \E seg \in reduced :
        LET A == driver[seg.first].stats
            B == driver[seg.last].stats
        IN  /\ seg.last = seg.first + 1
            /\ ModulesOf(A) \cap ModulesOf(B) = {}
            /\ DOMAIN A.passed # {} /\ DOMAIN B.passed # {}
            /\ DOMAIN A.output # {} /\ DOMAIN B.output # {}
            /\ DOMAIN A.failed # {}
            /\ ModulesOf(seg.stats) = {1, 2}

\* the statistics of the drivers first .. last, folded from the left
RECURSIVE FoldLeft(_, _)
FoldLeft(first, last) ==
    IF last < first THEN new
    ELSE combine(FoldLeft(first, last - 1), driver[last].stats)

\* C13: combine is associative, combine(combine(A,B),C) = combine(A,combine(B,C))
\* for any three statistics, and the empty statistics are its identity,
\* combine(new(), A) = A = combine(A, new()); so whatever way the reduce of
\* run() groups the drivers' statistics, it makes of them what folding them from
\* the left makes.
C13_CombineAssociatesWithIdentity ==
    /\ LET A == driver[1].stats
           B == driver[2].stats
           C == driver[3].stats
       IN  /\ combine(combine(A, B), C) = combine(A, combine(B, C))
           /\ combine(new, A) = A
           /\ combine(A, new) = A
    /\ \A seg \in reduced : seg.stats = FoldLeft(seg.first, seg.last)

\* the reduce is over, of three statistics that hold the same module, two of
\* them with different outputs of the same test
C13_Witness ==
    /\ run = "Ok"
    /\ \E seg \in reduced : seg.first = 1 /\ seg.last = 3
    /\ 1 \in DOMAIN driver[1].stats.output
    /\ 1 \in DOMAIN driver[3].stats.output
    /\ driver[1].stats.output[1] # driver[3].stats.output[1]
    /\ 1 \in DOMAIN driver[2].stats.passed
    /\ final_statistics.output[1] = driver[3].stats.output[1]

\* what the driver of module m holds after its first n tests, given what the
\* backends returned for them
RECURSIVE DriverStatistics(_, _)
DriverStatistics(m, n) ==
    IF n = 0 THEN new
    ELSE LET ex == executions[m][n]
             test == tests[m][n]
             outcome ==
                loop_body(testing_config, test.function_name, test.test_info,
                          ex.vm_result, ex.remaining_gas,
                          IF ex.stackless_vm_result = None THEN Ok(<< >>)
                          ELSE ex.stackless_vm_result[1],
                          ex.prop_check_result)
             stats == DriverStatistics(m, n - 1)
         IN  IF outcome.success # None
             THEN test_success(stats, outcome.success[1], m)
             ELSE test_failure(stats, outcome.failure[1], m)

\* the final statistics of the run on one thread: the modules 1 .. k one after
\* the other, each driver's statistics combined into the accumulator
RECURSIVE SerialStatistics(_)
SerialStatistics(k) ==
    IF k = 0 THEN new
    ELSE combine(SerialStatistics(k - 1), DriverStatistics(k, Len(tests[k])))

\* C14: for the same plan and the same answers of the backends to each test,
\* the final statistics are the same with num_threads = 1 and num_threads = N,
\* under every interleaving of the workers and every reduction order: they are
\* in every finished run what the run on one thread makes of the plan and the
\* answers.
C14_FinalStatisticsOfTheSerialRun ==
    run = "Ok" => final_statistics = SerialStatistics(Cardinality(DOMAIN tests))

\* a finished run on two threads whose drivers took turns (a test of module 2,
\* then one of module 1, then one of module 2), with a passed and a failed test
C14_Witness ==
    /\ run = "Ok"
    /\ num_threads = 2
    /\ Len(writer) = 3
    /\ writer[1].module_id = 2 /\ writer[2].module_id = 1 /\ writer[3].module_id = 2
    /\ \E m \in DOMAIN tests : Passed(final_statistics, m) # {}
    /\ \E m \in DOMAIN tests : Failed(final_statistics, m) # {}

\* a test is recorded as failed
SomeTestFailed == \E m \in DOMAIN tests : Failed(driver[m].stats, m) # {}
\* the test is recorded once, as passed or as failed
RecordedOnce(m, fn) == Cardinality(PassedOf(m, fn)) + Cardinality(FailedOf(m, fn)) = 1

\* C15: a test recorded as failed, for whatever reason, does not abort the run:
\* no driver and no run ends by it, a driver returns only after the last test
\* of its module, every test executed is recorded, and as long as a test is to
\* be executed or statistics are to be reduced the run can take a step; the run
\* ends with every test of every module executed and recorded.
C15_FailuresDoNotAbortTheRun ==
    SomeTestFailed =>
        /\ run \in {"running", "Ok"}
        /\ \A m \in DOMAIN tests :
            /\ driver[m].pc \in {"queued", "running", "returned"}
            /\ driver[m].pc = "returned" => driver[m].next = Len(tests[m]) + 1
            /\ \A i \in 1 .. Len(tests[m]) :
                i < driver[m].next => RecordedOnce(m, tests[m][i].function_name)
        /\ run = "running" => ENABLED Next
        /\ run = "Ok" =>
            \A m \in DOMAIN tests : driver[m].pc = "returned"

\* a finished run in which the first test of module 1 timed out and the test
\* after it passed, and the test of module 2 failed too
C15_Witness ==
    /\ run = "Ok"
    /\ Len(tests[1]) = 2 /\ Len(tests[2]) = 1
    /\ \E f \in FailedOf(1, "t1") : f.failure_reason.kind = "Timeout"
    /\ PassedOf(1, "t2") # {}
    /\ \E f \in FailedOf(2, "t1") : f.failure_reason.kind = "Mismatch"

\* C16 as stated: no module driver ends by panicking or unwinding, each returns
\* its TestStatistics, and run(writer), whose bootstrap succeeded, does not end
\* otherwise than by returning Ok.
C16_AsStated ==
    /\ \A m \in DOMAIN tests : driver[m].pc \in {"queued", "running", "returned"}
    /\ run \in {"running", "Ok"}

\* a driver that panicked on its model build, in a run whose other driver had
\* recorded a test
C16_Witness ==
    /\ run = "panicked"
    /\ driver[1].pc = "running" /\ driver[1].next = 2
    /\ driver[2].pc = "panicked" /\ executions[2] = << >>

\* the primary VM returned, for the test the driver of m is at, Err with status
\* EXECUTED
ExecutedStatusAt(m, i) ==
    /\ i \in DOMAIN executions[m]
    /\ executions[m][i].vm_result.tag = "Err"
    /\ executions[m][i].vm_result.err[1].major = "EXECUTED"

\* C17 as stated: when the primary VM returns Err with major status EXECUTED,
\* the driver does not panic: the test is recorded as failed and the driver
\* goes on with the tests that remain.
C17_AsStated ==
    \A m \in DOMAIN tests : \A i \in DOMAIN executions[m] :
        ExecutedStatusAt(m, i)
            => /\ driver[m].pc # "panicked"
               /\ run # "panicked"
               /\ i < driver[m].next
               /\ FailedOf(m, tests[m][i].function_name) # {}

\* such an error where the two backends agree: the assert of the match is reached
C17_Witness ==
    \E m \in DOMAIN tests :
        /\ ExecutedStatusAt(m, 1)
        /\ Dual(executions[m][1]) /\ ReachesMatcher(executions[m][1])
        /\ driver[m].pc = "panicked"
        /\ writer = << >>

\* C18 as stated: the exit code of the tool is 0 if and only if summarize
\* returned true; a run with a failed or timed-out test ends with another code.
C18_AsStated ==
    main.exit_code # None =>
        (main.exit_code = Some(0) <=> main.summary # None /\ main.summary[1].ok)

\* the tool ended with 0 after a run that summarize reported as FAILED
C18_Witness ==
    /\ main.pc = "exit"
    /\ main.summary # None
    /\ main.summary[1].result = "FAILED" /\ ~main.summary[1].ok
    /\ main.exit_code = Some(0)

\* the dependency graph has a cycle: modules that each depend on one of them
HasCycle(info) ==
    \E cycle \in SUBSET DOMAIN info :
        cycle # {} /\ \A m \in cycle : info[m] \cap cycle # {}
Published == {storage[i] : i \in DOMAIN storage}
\* a runner exists, or something of a test run has happened
TestingStarted ==
    \/ run # "none"
    \/ writer # << >>
    \/ \E m \in DOMAIN tests : driver[m] # IdleDriver \/ executions[m] # << >>

\* C19: if the module dependency graph has a cycle, bootstrap fails with an
\* error before any module is published: the storage stays empty, no TestRunner
\* is constructed, no test is ever executed, and the tool ends with the error.
C19_CycleFailsBootstrap ==
    HasCycle(module_info) =>
        /\ storage = << >>
        /\ ~TestingStarted
        /\ main.pc \in {"new", "exit"}
        /\ main.pc = "exit" => main.exit_code = Some(101) /\ main.summary = None

\* the bootstrap has failed on a cycle of two modules that both depend on a
\* third, which could have been published
C19_Witness ==
    /\ module_info[1] = {0, 2} /\ module_info[2] = {0, 1}
    /\ main.pc = "exit"
    /\ main.exit_code = Some(101)
    /\ \E m \in DOMAIN tests : tests[m] # << >>

\* C20: every module of the plan is published, once, before the first test of
\* any module starts; while setup_test_storage is at work there is no runner
\* and nothing of a test run, so no execution precedes or overlaps it.
C20_PublishedBeforeAnyTest ==
    /\ TestingStarted =>
        /\ Published = DOMAIN module_info
        /\ Len(storage) = Cardinality(DOMAIN module_info)
        /\ main.pc \notin {"new", "publish"}
    /\ main.pc \in {"new", "publish"} => ~TestingStarted

\* a test of module 1 has been executed, after the modules it depends on and
\* itself were published
C20_Witness ==
    /\ module_info[1] = {0, 2}
    /\ storage \in {<< 0, 2, 1 >>, << 2, 0, 1 >>}
    /\ executions[1] # << >>
    /\ driver[1].next = 2

\* the storage as the bootstrap left it: the modules of the plan, published in
\* the order setup_test_storage computed
BootstrapStorage == main.order

\* C21: test execution never modifies the shared module storage: the session of
\* every test, on every worker and in every order, was opened over the storage
\* as the bootstrap left it, and the storage is still that one, whatever change
\* sets the tests before it produced.
C21_TestsStartFromTheBootstrapStorage ==
    run # "none" =>
        /\ storage = BootstrapStorage
        /\ \A m \in DOMAIN executions : \A i \in DOMAIN executions[m] :
                executions[m][i].starting_storage_state = BootstrapStorage

\* a finished run on two workers over three published modules: a test of each
\* module was executed, each with a change set
C21_Witness ==
    /\ num_threads = 2
    /\ Len(BootstrapStorage) = 3
    /\ \A m \in DOMAIN executions : Len(executions[m]) >= 1
    /\ \A m \in DOMAIN executions : \A i \in DOMAIN executions[m] :
            ChangeSet(m, executions[m][i].function_name) # << >>
    /\ storage = BootstrapStorage
    /\ run = "Ok"
\* the plan after the k-th call of filter
PlanAfter(k) == IF k = Len(filtered) THEN tests ELSE filtered[k + 1].tests
\* the (module, test) pairs of a plan, each with the test it names
TestsOf(module_tests) ==
    UNION {{<< module_id, module_tests[module_id][i] >> :
                i \in DOMAIN module_tests[module_id]} : module_id \in DOMAIN module_tests}

\* C22: filter is idempotent: where filter was called with a slice and then
\* again with the same slice, the plan after the second call is the plan after
\* the first.
C22_FilterIdempotent ==
    \A k \in 1 .. Len(filtered) - 1 :
        filtered[k].test_name_slice = filtered[k + 1].test_name_slice
            => PlanAfter(k + 1) = PlanAfter(k)

\* filter was called twice with the same slice, which is in no module's name,
\* and the first call removed a test and kept another
C22_Witness ==
    /\ Len(filtered) = 2
    /\ filtered[1].test_name_slice = filtered[2].test_name_slice
    /\ \A module_id \in DOMAIN tests : ~contains(module_id.name, filtered[1].test_name_slice)
    /\ \E module_id \in DOMAIN tests :
            /\ Len(tests[module_id]) >= 1
            /\ Len(tests[module_id]) < Len(filtered[1].tests[module_id])
\* C23: after filter(s) a test is in the plan if and only if it was in the plan
\* before and "<module name>::<test name>" contains s; every test of a module
\* whose name contains s is kept; no test is added, altered or repeated, and
\* every module stays in the plan.
C23_FilterKeepsWhatContainsTheSlice ==
    \A k \in 1 .. Len(filtered) :
        LET before == filtered[k].tests
            after == PlanAfter(k)
            s == filtered[k].test_name_slice
        IN  /\ DOMAIN after = DOMAIN before
            /\ TestsOf(after) =
                    {t \in TestsOf(before) : contains(full_name(t[1], t[2].function_name), s)}
            /\ \A module_id \in DOMAIN before :
                    /\ contains(module_id.name, s) => after[module_id] = before[module_id]
                    /\ Len(after[module_id]) =
                            Cardinality({t \in TestsOf(after) : t[1] = module_id})

\* a call of filter with a slice that one module's name contains, a module that
\* keeps a test whose own name does not contain the slice, and another module
\* that loses a test and keeps one
C23_Witness ==
    /\ Len(filtered) = 1
    /\ \E module_id \in DOMAIN tests :
            /\ contains(module_id.name, filtered[1].test_name_slice)
            /\ \E i \in DOMAIN tests[module_id] :
                    ~contains(tests[module_id][i].function_name, filtered[1].test_name_slice)
    /\ \E module_id \in DOMAIN tests :
            /\ Len(tests[module_id]) >= 1
            /\ Len(tests[module_id]) < Len(filtered[1].tests[module_id])
\* C24: each executed test has exactly one status line, and its kind is that of
\* the recorded outcome: PASS if and only if the test is recorded as passed,
\* TIMEOUT if and only if it is recorded as failed with reason Timeout, FAIL if
\* and only if it is recorded as failed with any other reason.
C24_OneLineOfTheRecordedKind ==
    \A t \in Executed :
        LET lines == LinesOf(t[1], NameOf(t))
            failed == FailedOf(t[1], NameOf(t))
        IN  /\ Cardinality(lines) = 1
            /\ \A k \in lines :
                /\ writer[k].kind \in {"PASS", "TIMEOUT", "FAIL"}
                /\ writer[k].kind = "PASS" <=> PassedOf(t[1], NameOf(t)) # {}
                /\ writer[k].kind = "TIMEOUT"
                        <=> \E f \in failed : f.failure_reason.kind = "Timeout"
                /\ writer[k].kind = "FAIL"
                        <=> \E f \in failed : f.failure_reason.kind # "Timeout"

\* a test that ran out of gas, with no expectation, recorded as failed with
\* reason Timeout, whose one line is TIMEOUT
C24_Witness ==
    \E t \in Executed :
        /\ OutOfGasResult(Execution(t))
        /\ FailureKinds(t) = {"Timeout"}
        /\ OneLine(t[1], NameOf(t), "TIMEOUT")
\* the drivers between writer.lock() returning and the end of the statement
Holders == {m \in DOMAIN driver : driver[m].pc \in {"writing", "written"}}
\* the index in its module's plan of the test a piece of a line is about
IndexOf(chunk) ==
    CHOOSE i \in DOMAIN tests[chunk.module_id] :
        tests[chunk.module_id][i].function_name = chunk.function_name

\* C25: under any interleaving of the workers the guard of the writer's mutex
\* is held by at most one driver, from before the first piece of a line to after
\* its last and no longer; the pieces of a line are next to each other in the
\* writer, so no two lines are intermixed; and the lines of one module are in
\* the order of the module's tests, whatever lines of other modules lie between.
C25_LinesAtomicAndInModuleOrder ==
    /\ Cardinality(Holders) <= 1
    /\ \A m \in DOMAIN driver : m \in Holders <=> mutex = Some(m)
    /\ \A k \in DOMAIN writer :
        /\ writer[k].chunk = "status" /\ k < Len(writer) =>
                /\ writer[k + 1].chunk = "name"
                /\ writer[k + 1].module_id = writer[k].module_id
                /\ writer[k + 1].function_name = writer[k].function_name
        /\ writer[k].chunk = "status" /\ k = Len(writer) =>
                mutex = Some(writer[k].module_id)
        /\ writer[k].chunk = "name" =>
                /\ k > 1
                /\ writer[k - 1].chunk = "status"
                /\ writer[k - 1].module_id = writer[k].module_id
                /\ writer[k - 1].function_name = writer[k].function_name
    /\ mutex = None => Len(writer) % Len(LineChunks) = 0
    /\ \A j, k \in DOMAIN writer :
            /\ j < k
            /\ writer[j].module_id = writer[k].module_id
            /\ writer[j].chunk = "status" /\ writer[k].chunk = "status"
            => IndexOf(writer[j]) < IndexOf(writer[k])

\* two workers: a module's first line is written; the other module's driver
\* holds the guard and has written the first piece of its line; the first
\* module's driver has executed its second test and waits for the lock
C25_Witness ==
    /\ num_threads = 2
    /\ Len(writer) = 3
    /\ \E m \in Holders, w \in DOMAIN driver :
            /\ driver[w].pc = "locking"
            /\ driver[w].next = 2
            /\ writer[1].module_id = w
            /\ writer[3].module_id = m
            /\ mutex = Some(m)

\* the tests of m whose execution has begun and whose iteration is not over
InFlight(m) == {i \in DOMAIN executions[m] : i >= driver[m].next}

\* C26: the work unit is one module: the tests of a module are executed by the
\* module's one driver in the order of the plan, the next one beginning when
\* the iteration of the one before is over, so that at most one test of a
\* module is in flight; and at most num_threads drivers are on a worker.
C26_OneDriverPerModuleWithinThePool ==
    /\ Cardinality(OnAWorker) <= num_threads
    /\ \A m \in DOMAIN tests :
        /\ Cardinality(InFlight(m)) <= 1
        /\ InFlight(m) # {} <=> driver[m].pc \in {"locking", "writing", "written"}
        /\ Len(executions[m]) <= Len(tests[m])
        /\ \A i \in DOMAIN executions[m] :
                executions[m][i].function_name = tests[m][i].function_name
        /\ driver[m].pc = "queued" => executions[m] = << >>
        /\ driver[m].pc = "returned" => Len(executions[m]) = Len(tests[m])

\* one worker and two modules with tests: the first module's driver has a
\* second test in flight, after its first, while the other module waits in the
\* queue
C26_Witness ==
    /\ num_threads = 1
    /\ \E m, q \in DOMAIN tests :
            /\ InFlight(m) = {2}
            /\ driver[q].pc = "queued"
            /\ Len(tests[q]) >= 1
\* the status lines of the first n tests of module m, as the plan, the
\* configuration and the answers of the backends make them
RECURSIVE SerialLinesOf(_, _)
SerialLinesOf(m, n) ==
    IF n = 0 THEN << >>
    ELSE LET ex == executions[m][n]
             test == tests[m][n]
             outcome ==
                loop_body(testing_config, test.function_name, test.test_info,
                          ex.vm_result, ex.remaining_gas,
                          IF ex.stackless_vm_result = None THEN Ok(<< >>)
                          ELSE ex.stackless_vm_result[1],
                          ex.prop_check_result)
         IN  Append(SerialLinesOf(m, n - 1),
                    [kind |-> outcome.line[1], module_id |-> m,
                     function_name |-> test.function_name])
\* the lines of the modules 1 .. k, module after module, each as far as its
\* driver has come
RECURSIVE SerialLines(_)
SerialLines(k) ==
    IF k = 0 THEN << >>
    ELSE SerialLines(k - 1) \o SerialLinesOf(k, driver[k].next - 1)

\* C27: with num_threads = 1 the run is deterministic: at every moment the
\* status lines written are a function of the plan, the configuration and the
\* answers of the backends (the lines of the modules in the order of their
\* identifiers, those of a module in the order of its tests), and so are the
\* final statistics and the report summarize makes of them; two runs with the
\* same plan and the same answers write the same.
C27_OneThreadIsDeterministic ==
    num_threads = 1 /\ run # "none" =>
        /\ writer = SerialLines(Cardinality(DOMAIN tests))
        /\ run = "Ok" => final_statistics = SerialStatistics(Cardinality(DOMAIN tests))
        /\ main.summary # None =>
                main.summary[1] = summarize(SerialStatistics(Cardinality(DOMAIN tests)))

\* a run on one thread of a plan with a test in each module, reported: the
\* line of module 1 before the line of module 2
C27_Witness ==
    /\ num_threads = 1
    /\ main.summary # None
    /\ Len(writer) = 2
    /\ writer[1].module_id = 1
    /\ writer[2].module_id = 2
\* the TestRunInfo recorded for a test, as passed or within its failure
RunInfosOf(m, fn) == PassedOf(m, fn) \cup {f.test_run_info : f \in FailedOf(m, fn)}

\* C28: the instruction count recorded for every test is the execution bound
\* minus the gas the meter had left after the primary execution, and so lies
\* between 0 and the execution bound; the subtraction is defined for every
\* execution (it never underflows and never panics).
C28_InstructionsAreTheGasUsed ==
    /\ \A m \in DOMAIN executions : \A i \in DOMAIN executions[m] :
            checked_sub(testing_config.execution_bound, executions[m][i].remaining_gas) # None
    /\ \A t \in Executed :
            /\ RunInfosOf(t[1], NameOf(t)) # {}
            /\ \A r \in RunInfosOf(t[1], NameOf(t)) :
                /\ r.instructions_executed
                        = testing_config.execution_bound - Execution(t).remaining_gas
                /\ r.instructions_executed \in 0 .. testing_config.execution_bound

\* a test that used all its gas, recorded as failed with the whole execution
\* bound as its instruction count
C28_Witness ==
    \E t \in Executed :
        /\ Execution(t).remaining_gas = 0
        /\ OutOfGasResult(Execution(t))
        /\ testing_config.execution_bound > 0
        /\ \E f \in FailedOf(t[1], NameOf(t)) :
                f.test_run_info.instructions_executed = testing_config.execution_bound
\* the payload a FailureReason carries: the fields that are set
Payload(reason) ==
    {field \in DOMAIN reason : field # "kind" /\ reason[field] # None}
\* the payload of each variant of FailureReason
PayloadOf(kind) ==
    CASE kind = "NoError" -> {}
      [] kind = "WrongError" -> {"expected", "actual"}
      [] kind = "WrongAbortDEPRECATED" -> {"code", "actual"}
      [] kind = "UnexpectedError" -> {"actual"}
      [] kind = "Timeout" -> {}
      [] kind = "Mismatch" -> {"move_vm_return_values", "stackless_vm_return_values"}
      [] kind = "Property" -> {"details"}
      [] OTHER -> {"none"}

\* C29: every recorded TestFailure whose reason is Mismatch or Property carries
\* no expected error, no expected code and no actual error, and retains no VM
\* error; every recorded failure has exactly one reason: one variant of
\* FailureReason with that variant's payload and no other, and a test has one
\* failure at most.
C29_CrossCheckFailuresCarryNoError ==
    \A m \in DOMAIN driver : \A f \in Failed(driver[m].stats, m) :
        /\ Payload(f.failure_reason) = PayloadOf(f.failure_reason.kind)
        /\ Cardinality(FailedOf(m, f.test_run_info.function_ident)) = 1
        /\ f.failure_reason.kind \in {"Mismatch", "Property"} =>
                /\ f.vm_error = None
                /\ f.failure_reason.expected = None
                /\ f.failure_reason.code = None
                /\ f.failure_reason.actual = None

\* a test whose primary VM returned an error and whose stackless VM returned
\* another result, recorded as failed with reason Mismatch and no VM error
C29_Witness ==
    \E t \in Executed :
        /\ ErrResult(Execution(t))
        /\ ResultsDiffer(Execution(t))
        /\ \E f \in FailedOf(t[1], NameOf(t)) :
                f.failure_reason.kind = "Mismatch" /\ f.vm_error = None
\* the driver of m panicked where it was entered, on the model of the source
\* files, before its first test
BuildFailed(m) == driver[m].pc = "panicked" /\ executions[m] = << >>

\* C30: without check_stackless_vm the model for the stackless VM is not built
\* (no driver fails on it) and the stackless VM is not executed for any test,
\* so no test is recorded with reason Mismatch or Property; with
\* check_stackless_vm both backends are executed for every test a driver
\* executes.
C30_StacklessOnlyWhereChecked ==
    /\ ~testing_config.check_stackless_vm =>
        \A m \in DOMAIN driver :
            /\ ~BuildFailed(m)
            /\ \A i \in DOMAIN executions[m] :
                    /\ executions[m][i].stackless_vm_result = None
                    /\ executions[m][i].prop_check_result = None
            /\ \A f \in Failed(driver[m].stats, m) :
                    f.failure_reason.kind \notin {"Mismatch", "Property"}
    /\ testing_config.check_stackless_vm =>
        \A m \in DOMAIN driver :
            /\ driver[m].next - 1 <= Len(executions[m])
            /\ \A i \in DOMAIN executions[m] :
                    executions[m][i].stackless_vm_result # None

\* a finished run without check_stackless_vm in which both modules had tests
\* executed on the primary VM alone, one of them recorded as failed
C30_Witness ==
    /\ ~testing_config.check_stackless_vm
    /\ run = "Ok"
    /\ \A m \in DOMAIN executions : executions[m] # << >>
    /\ \E m \in DOMAIN driver : Failed(driver[m].stats, m) # {}
\* the rows report_statistics wrote for a test
RowsOf(m, fn) ==
    {k \in DOMAIN main.report[1].out :
        /\ main.report[1].out[k].line = "row"
        /\ main.report[1].out[k].name = << m, fn >>}

\* C31: with the report format "csv", report_statistics writes the header line
\* name,nanos,gas, then one row for every passed test, with the gas recorded
\* for it, and no row for a failed test, and nothing else: nothing more to the
\* writer, nothing to standard error.
C31_CsvHeaderAndPassedRows ==
    main.report # None /\ main.report[1].report_format = Some("csv") =>
        LET out == main.report[1].out
        IN  /\ main.report[1].err = << >>
            /\ Len(out) = 1 + fold_len(final_statistics.passed)
            /\ out[1] = [line |-> "header", text |-> "name,nanos,gas"]
            /\ \A k \in 2 .. Len(out) : out[k].line = "row"
            /\ \A m \in DOMAIN tests : \A i \in DOMAIN tests[m] :
                LET fn == tests[m][i].function_name
                    passed == {r \in Passed(final_statistics, m) : r.function_ident = fn}
                IN  /\ passed # {} =>
                            \E k \in RowsOf(m, fn) :
                                /\ RowsOf(m, fn) = {k}
                                /\ \E r \in passed : out[k].gas = r.instructions_executed
                    /\ passed = {} => RowsOf(m, fn) = {}

\* a csv report of a run with two passed tests and a failed one
C31_Witness ==
    /\ main.report # None
    /\ main.report[1].report_format = Some("csv")
    /\ Len(main.report[1].out) = 3
    /\ fold_len(final_statistics.failed) = 1
DualOrder ==
    << "execute_via_move_vm", "execute_via_stackless_vm", "compare", "property", "match" >>

\* C33: in dual-backend mode each test runs on the primary VM first and on the
\* stackless VM second; the results are compared before the property checker's
\* report is examined; and when the results differ the test is settled by the
\* comparison: the reason recorded is Mismatch, also when the property checker
\* reports a failure, which is then never examined.
C33_PrimaryThenReferenceThenCompare ==
    \A m \in DOMAIN executions : \A i \in DOMAIN executions[m] :
        LET ex == executions[m][i]
        IN  /\ ex.calls = SubSeq(DualOrder, 1, Len(ex.calls))
            /\ ex.stackless_vm_result # None <=> Len(ex.calls) >= 2
            /\ ResultsDiffer(ex) /\ Len(ex.calls) >= 3 =>
                    /\ Len(ex.calls) = 3
                    /\ i < driver[m].next
                    /\ {f.failure_reason.kind :
                            f \in FailedOf(m, ex.function_name)} = {"Mismatch"}
            /\ Len(ex.calls) = 4 /\ i < driver[m].next =>
                    {f.failure_reason.kind :
                        f \in FailedOf(m, ex.function_name)} = {"Property"}

\* a test whose results differ while the property checker reports a failure:
\* settled by the comparison as Mismatch
C33_Witness ==
    \E t \in Executed :
        /\ ResultsDiffer(Execution(t))
        /\ Execution(t).prop_check_result # None
        /\ Execution(t).calls =
                << "execute_via_move_vm", "execute_via_stackless_vm", "compare" >>
        /\ FailureKinds(t) = {"Mismatch"}
\* the TestRunInfo each backend returned for an execution
PrimaryInfo(ex) ==
    execute_via_move_vm(testing_config, ex.function_name, ex.vm_result,
                        ex.remaining_gas).test_run_info
StacklessInfo(ex) ==
    execute_via_stackless_vm(ex.function_name, ex.stackless_vm_result[1],
                             ex.prop_check_result).test_run_info

\* C34: the TestRunInfo recorded for a test, passed or failed, Mismatch and
\* Property failures included, is the one execute_via_move_vm returned; the
\* one of the stackless VM, with its instruction count 0, is recorded for no
\* test whose primary execution used gas.
C34_RunInfoOfThePrimaryVM ==
    \A t \in Executed :
        LET ex == Execution(t)
            recorded == RunInfosOf(t[1], NameOf(t))
        IN  /\ recorded = {PrimaryInfo(ex)[1]}
            /\ Dual(ex) /\ ex.remaining_gas < testing_config.execution_bound =>
                    /\ StacklessInfo(ex).instructions_executed = 0
                    /\ StacklessInfo(ex) \notin recorded

\* a Mismatch failure of a test that used gas on the primary VM, recorded with
\* the primary VM's instruction count
C34_Witness ==
    \E t \in Executed :
        /\ ResultsDiffer(Execution(t))
        /\ Execution(t).remaining_gas = 0
        /\ \E f \in FailedOf(t[1], NameOf(t)) :
                /\ f.failure_reason.kind = "Mismatch"
                /\ f.test_run_info.instructions_executed = testing_config.execution_bound
                /\ f.test_run_info.instructions_executed > 0
\* the number of tests in the plan the runner holds
RECURSIVE PlanSize(_)
PlanSize(modules) ==
    IF modules = {} THEN 0
    ELSE LET m == CHOOSE k \in modules : TRUE
         IN  Len(tests[m]) + PlanSize(modules \ {m})

\* C35: the counts summarize prints after a run satisfy total = passed +
\* failed; total is the number of tests in the plan the runner held, passed
\* and failed the numbers of tests recorded as passed and as failed; for a plan
\* without tests the total is 0, the result OK, and summarize returns true.
C35_TotalsOfTheSummary ==
    main.summary # None =>
        LET summary == main.summary[1]
        IN  /\ summary.total = summary.passed + summary.failed
            /\ summary.total = PlanSize(DOMAIN tests)
            /\ summary.passed =
                    Cardinality({t \in Executed : PassedOf(t[1], NameOf(t)) # {}})
            /\ summary.failed =
                    Cardinality({t \in Executed : FailedOf(t[1], NameOf(t)) # {}})
            /\ PlanSize(DOMAIN tests) = 0 =>
                    summary.total = 0 /\ summary.ok /\ summary.result = "OK"

\* the summary of a run of a module with two tests, one passed and one failed
C35_Witness ==
    /\ main.summary # None
    /\ \E m \in DOMAIN tests : Len(tests[m]) = 2
    /\ main.summary[1].total = 2
    /\ main.summary[1].passed = 1
    /\ main.summary[1].failed = 1
\* C36: a driver's statistics are what its own iterations made of its own
\* module's tests, with entries under its own module identifier only; the
\* statistics of two segments of the reduce share no module identifier, and a
\* segment holds, for every module it spans, the entries the module's driver
\* returned, so that no combine loses an entry; and the results of run() exist
\* only when every driver has returned and its statistics are in them.
C36_LocalStatisticsMergedAtTheBarrier ==
    /\ \A m \in DOMAIN driver :
        /\ ModulesOf(driver[m].stats) \subseteq {m}
        /\ driver[m].pc # "panicked" =>
                driver[m].stats = DriverStatistics(m, driver[m].next - 1)
    /\ \A a, b \in reduced : a # b => ModulesOf(a.stats) \cap ModulesOf(b.stats) = {}
    /\ \A seg \in reduced :
        /\ ModulesOf(seg.stats) \subseteq seg.first .. seg.last
        /\ \A m \in seg.first .. seg.last :
            /\ driver[m].pc = "returned"
            /\ Passed(seg.stats, m) = Passed(driver[m].stats, m)
            /\ Failed(seg.stats, m) = Failed(driver[m].stats, m)
    /\ run = "Ok" =>
        /\ \A m \in DOMAIN driver : driver[m].pc = "returned"
        /\ \A m \in DOMAIN driver :
            /\ Passed(final_statistics, m) = Passed(driver[m].stats, m)
            /\ Failed(final_statistics, m) = Failed(driver[m].stats, m)

\* two workers: the driver of one module has returned and its statistics are
\* in the reduce, while the other module's driver holds the writer's lock with
\* a test recorded and another in flight
C36_Witness ==
    /\ num_threads = 2
    /\ run = "running"
    /\ \E a, b \in DOMAIN driver :
        /\ driver[a].pc = "returned"
        /\ ModulesOf(driver[a].stats) = {a}
        /\ \E seg \in reduced : seg.first = a /\ seg.last = a
        /\ driver[b].pc = "writing"
        /\ driver[b].next = 2
\* every test of the plan is in the statistics run() returned
EveryTestRecorded ==
    /\ run = "Ok"
    /\ \A m \in DOMAIN tests : \A i \in DOMAIN tests[m] :
            Cardinality({r \in Passed(final_statistics, m) :
                            r.function_ident = tests[m][i].function_name})
                + Cardinality({f \in Failed(final_statistics, m) :
                            f.test_run_info.function_ident = tests[m][i].function_name}) = 1

\* C37 as stated: under fair scheduling, every execution terminating, run()
\* eventually returns with every test of the plan recorded.
C37_AsStated == <>EveryTestRecorded

\* a run that unwound on a failed write with a test of the plan executed and
\* not recorded: one driver panicked in writeln!, the mutex is poisoned, and
\* the other driver panicked taking the lock for its own line
C37_Witness ==
    /\ run = "panicked"
    /\ mutex = Poisoned
    /\ \A m \in DOMAIN driver : driver[m].pc = "panicked" /\ Len(executions[m]) = 1
    /\ \A m \in DOMAIN driver : ModulesOf(driver[m].stats) = {}

\* What holds of C37 on any writer: the writer's mutex is the only resource a
\* worker waits for, its holder is between lock() and the end of the writeln!
\* statement and never waits, a worker that waits for it holds nothing, and
\* while run() has neither returned nor unwound some step can be taken.
C37_OneLockAndNoDeadlock ==
    /\ \A m \in DOMAIN driver :
        /\ mutex = Some(m) <=> driver[m].pc \in {"writing", "written"}
        /\ mutex = Some(m) => ENABLED (WriteChunk(m) \/ Unlock(m))
        /\ driver[m].pc = "locking" =>
            \/ mutex = Poisoned
            \/ mutex = None
            \/ \E k \in DOMAIN driver : k # m /\ mutex = Some(k)
        /\ ~ENABLED WorkerStep(m) =>
            \/ driver[m].pc \in {"returned", "panicked"}
            \/ run # "running"
            \/ driver[m].pc = "queued" /\ Cardinality(OnAWorker) >= num_threads
            \/ driver[m].pc = "queued" /\ num_threads = 1
            \/ driver[m].pc = "locking" /\ \E k \in DOMAIN driver : k # m /\ mutex = Some(k)
    /\ run = "running" => ENABLED NextWriter

\* What holds of C37 on a writer that takes every piece: the fair run returns
\* with every test recorded.
C37_FairRunReturns == <>[]EveryTestRecorded
\* the bytecode generation of the i-th test of m failed
CodegenFailed(m, i) ==
    /\ i \in DOMAIN executions[m]
    /\ executions[m][i].shared_object.tag = "Err"

\* how often a test is in the statistics run() returned
TimesRecorded(m, fn) ==
    Cardinality({r \in Passed(final_statistics, m) : r.function_ident = fn})
        + Cardinality({f \in Failed(final_statistics, m) :
                            f.test_run_info.function_ident = fn})

\* C38 as stated: after a run on the Solana backend every test of every
\* module's plan is recorded exactly once, as passed or as failed, the tests
\* that follow a test whose bytecode generation failed included.
C38_AsStated ==
    run = "Ok" =>
        \A m \in DOMAIN tests : \A i \in DOMAIN tests[m] :
            TimesRecorded(m, tests[m][i].function_name) = 1

\* a finished run of a module of two tests: the bytecode generation of the
\* first failed and the test is recorded with MoveToSolanaError; the second was
\* never run and is recorded nowhere
C38_Witness ==
    /\ run = "Ok"
    /\ \E m \in DOMAIN tests :
        /\ Len(tests[m]) = 2
        /\ CodegenFailed(m, 1)
        /\ Len(executions[m]) = 1
        /\ \E f \in Failed(final_statistics, m) :
            /\ f.failure_reason.kind = "MoveToSolanaError"
            /\ f.test_run_info = TestRunInfo(tests[m][1].function_name, 0)
        /\ TimesRecorded(m, tests[m][2].function_name) = 0

\* What holds of C38: no test is recorded twice, a test whose bytecode was
\* generated is recorded once whatever the Solana VM returned, and a test is
\* missing from the statistics only behind a failed generation in its module.
C38_RecordedUpToAFailedGeneration ==
    run = "Ok" =>
        \A m \in DOMAIN tests : \A i \in DOMAIN tests[m] :
            /\ TimesRecorded(m, tests[m][i].function_name) <= 1
            /\ i \in DOMAIN executions[m] => TimesRecorded(m, tests[m][i].function_name) = 1
            /\ TimesRecorded(m, tests[m][i].function_name) = 0 =>
                    \E j \in 1 .. i - 1 : CodegenFailed(m, j)
====
